---- MODULE Spec2Model ----
(***************************************************************************)
(* Model of the formula functions of src/teste.py (nutrition calculator). *)
(*                                                                         *)
(* Numbers are exact rationals <<numerator, denominator>> in lowest terms  *)
(* with a positive denominator, so every decimal coefficient of the source *)
(* (0.25, 4.34524, ...) is represented exactly.  Exact arithmetic stands   *)
(* in for Python's binary floating point: the model decides which branch   *)
(* runs and which closed form is evaluated, not rounding in the last bit.  *)
(*                                                                         *)
(* Execution is single-threaded and synchronous: the caller is either     *)
(* idle or holds the outcome of the one call it has just made.  The state  *)
(* is the caller's position (pc), the call in hand (function name and      *)
(* arguments) and its outcome: a number, None, a dict, or a raised         *)
(* exception (class and message).  The Streamlit session adds the          *)
(* calculation log (historico), what the sidebar shows of it (barra),      *)
(* what the page shows (tela), and a note of one earlier call (anterior).  *)
(*                                                                         *)
(* Python does not enforce the type hints, so the enumeration arguments    *)
(* range over the members and one value that is no member.  Strings are    *)
(* written without accents.  Line 6 of the source imports the name         *)
(* typing.union, which does not exist; the functions are modelled as       *)
(* defined, as if that import were absent.                                 *)
(***************************************************************************)
EXTENDS Integers, Sequences, FiniteSets, TLC

VARIABLES pc, call, out, historico, barra, tela, anterior

vars == <<pc, call, out, historico, barra, tela, anterior>>

\* the state of the Streamlit session, untouched by the formula functions
sessao == <<historico, barra, tela, anterior>>

(***************************************************************************)
(* Exact rational arithmetic                                               *)
(***************************************************************************)
Abs(n) == IF n < 0 THEN -n ELSE n

RECURSIVE GCD(_, _)
GCD(a, b) == IF b = 0 THEN a ELSE GCD(b, a % b)

\* n/d in lowest terms, sign carried by the numerator (d # 0)
Rat(n, d) ==
    LET g == GCD(Abs(n), Abs(d))
        s == IF d < 0 THEN -1 ELSE 1
    IN  <<(s * n) \div g, (s * d) \div g>>

\* an integer literal of the source
IntLit(n) == <<n, 1>>

Zero == IntLit(0)

\* sums over the least common denominator, products reduced crosswise, so that
\* intermediate values stay small
RAdd(a, b) ==
    LET g == GCD(a[2], b[2])
    IN  Rat(a[1] * (b[2] \div g) + b[1] * (a[2] \div g), (a[2] \div g) * b[2])
RNeg(a) == <<-a[1], a[2]>>
RSub(a, b) == RAdd(a, RNeg(b))
RMul(a, b) ==
    LET g1 == GCD(Abs(a[1]), b[2])
        g2 == GCD(Abs(b[1]), a[2])
    IN  <<(a[1] \div g1) * (b[1] \div g2), (a[2] \div g2) * (b[2] \div g1)>>
\* b # Zero
RDiv(a, b) == RMul(a, Rat(b[2], b[1]))
RLt(a, b) == a[1] * b[2] < b[1] * a[2]
RLe(a, b) == a[1] * b[2] <= b[1] * a[2]
RGt(a, b) == RLt(b, a)
RGe(a, b) == RLe(b, a)

(***************************************************************************)
(* Python values and call outcomes                                         *)
(***************************************************************************)
\* Python's None, as an argument value
None == <<>>

\* truth value of an Optional[float]: None and 0.0 are falsy
Truthy(x) == x # None /\ x # Zero

\* a returned number
Num(r) == [kind |-> "num", val |-> r]

\* a returned None
NoResult == [kind |-> "none"]

\* a raised exception
Raise(cls, msg) == [kind |-> "error", cls |-> cls, msg |-> msg]

(***************************************************************************)
(* Enumerations, src/teste.py lines 10-25.  Members are named by their     *)
(* Python member names; any other value is not a member.                   *)
(***************************************************************************)
Sexo == {"MASCULINO", "FEMININO"}
Raca == {"BRANCA", "NEGRA"}
Condicao == {"OBESIDADE", "DESNUTRICAO"}
\* NivelAtividade member values (the functions compare against .value)
NivelAtividade == {"leve a moderada", "restrita intensa", "restricao fisica grave"}

(***************************************************************************)
(* Formula functions, lines 28-78                                          *)
(***************************************************************************)
\* the two branches add the same weight: malnutrition adds peso_ideal too
calcular_peso_ajustado_mesmo_ramo(peso_atual, peso_ideal, condicao) ==
    IF RLe(peso_atual, Zero) \/ RLe(peso_ideal, Zero)
    THEN Raise("ValueError", "Pesos devem ser valores positivos")
    ELSE IF condicao \in {"OBESIDADE", "DESNUTRICAO"}
    THEN Num(RAdd(RMul(RSub(peso_atual, peso_ideal), Rat(25, 100)), peso_ideal))
    ELSE NoResult

\* the difference is not parenthesised: peso_atual - peso_ideal * 0.25 + ...
calcular_peso_ajustado_sem_parenteses(peso_atual, peso_ideal, condicao) ==
    IF RLe(peso_atual, Zero) \/ RLe(peso_ideal, Zero)
    THEN Raise("ValueError", "Pesos devem ser valores positivos")
    ELSE IF condicao = "OBESIDADE"
    THEN Num(RAdd(RSub(peso_atual, RMul(peso_ideal, Rat(25, 100))), peso_ideal))
    ELSE IF condicao = "DESNUTRICAO"
    THEN Num(RAdd(RSub(peso_atual, RMul(peso_ideal, Rat(25, 100))), peso_atual))
    ELSE NoResult

calcular_peso_ajustado(peso_atual, peso_ideal, condicao) ==
    IF RLe(peso_atual, Zero) \/ RLe(peso_ideal, Zero)
    THEN Raise("ValueError", "Pesos devem ser valores positivos")
    ELSE IF condicao = "OBESIDADE"
    THEN Num(RAdd(RMul(RSub(peso_atual, peso_ideal), Rat(25, 100)), peso_ideal))
    ELSE IF condicao = "DESNUTRICAO"
    THEN Num(RAdd(RMul(RSub(peso_atual, peso_ideal), Rat(25, 100)), peso_atual))
    ELSE NoResult

\* the difference is taken the other way round: a gain is reported as a loss
calcular_perda_peso_invertida(peso_usual, peso_atual) ==
    IF RLe(peso_usual, Zero)
    THEN Raise("ValueError", "Peso usual deve ser maior que zero")
    ELSE Num(RMul(RDiv(RSub(peso_atual, peso_usual), peso_usual), IntLit(100)))

\* computes only while the log is empty, answers 0 afterwards
calcular_perda_peso_uma_vez(peso_usual, peso_atual) ==
    IF RLe(peso_usual, Zero)
    THEN Raise("ValueError", "Peso usual deve ser maior que zero")
    ELSE IF historico # <<>> THEN Num(Zero)
    ELSE Num(RMul(RDiv(RSub(peso_usual, peso_atual), peso_usual), IntLit(100)))

\* adds the number of logged calculations to the percentage
calcular_perda_peso_contada(peso_usual, peso_atual) ==
    IF RLe(peso_usual, Zero)
    THEN Raise("ValueError", "Peso usual deve ser maior que zero")
    ELSE Num(RAdd(RMul(RDiv(RSub(peso_usual, peso_atual), peso_usual), IntLit(100)),
                  IntLit(Len(historico))))

calcular_perda_peso(peso_usual, peso_atual) ==
    IF RLe(peso_usual, Zero)
    THEN Raise("ValueError", "Peso usual deve ser maior que zero")
    ELSE Num(RMul(RDiv(RSub(peso_usual, peso_atual), peso_usual), IntLit(100)))

\* the race test of the second branch is an else: any race but BRANCA counts as NEGRA
estimar_peso_crianca_raca_else(altura_joelho, perimetro_braco, sexo, raca) ==
    IF RLe(altura_joelho, Zero) \/ RLe(perimetro_braco, Zero)
    THEN Raise("ValueError", "Medidas devem ser positivas")
    ELSE IF sexo = "MASCULINO" /\ raca = "BRANCA"
    THEN Num(RSub(RAdd(RMul(altura_joelho, Rat(68, 100)),
                       RMul(perimetro_braco, Rat(264, 100))), Rat(5008, 100)))
    ELSE IF sexo = "MASCULINO"
    THEN Num(RSub(RAdd(RMul(altura_joelho, Rat(59, 100)),
                       RMul(perimetro_braco, Rat(273, 100))), Rat(4832, 100)))
    ELSE IF sexo = "FEMININO" /\ raca = "BRANCA"
    THEN Num(RSub(RAdd(RMul(altura_joelho, Rat(77, 100)),
                       RMul(perimetro_braco, Rat(247, 100))), Rat(5016, 100)))
    ELSE IF sexo = "FEMININO"
    THEN Num(RSub(RAdd(RMul(altura_joelho, Rat(71, 100)),
                       RMul(perimetro_braco, Rat(259, 100))), Rat(5043, 100)))
    ELSE NoResult

estimar_peso_crianca(altura_joelho, perimetro_braco, sexo, raca) ==
    IF RLe(altura_joelho, Zero) \/ RLe(perimetro_braco, Zero)
    THEN Raise("ValueError", "Medidas devem ser positivas")
    ELSE IF sexo = "MASCULINO" /\ raca = "BRANCA"
    THEN Num(RSub(RAdd(RMul(altura_joelho, Rat(68, 100)),
                       RMul(perimetro_braco, Rat(264, 100))), Rat(5008, 100)))
    ELSE IF sexo = "MASCULINO" /\ raca = "NEGRA"
    THEN Num(RSub(RAdd(RMul(altura_joelho, Rat(59, 100)),
                       RMul(perimetro_braco, Rat(273, 100))), Rat(4832, 100)))
    ELSE IF sexo = "FEMININO" /\ raca = "BRANCA"
    THEN Num(RSub(RAdd(RMul(altura_joelho, Rat(77, 100)),
                       RMul(perimetro_braco, Rat(247, 100))), Rat(5016, 100)))
    ELSE IF sexo = "FEMININO" /\ raca = "NEGRA"
    THEN Num(RSub(RAdd(RMul(altura_joelho, Rat(71, 100)),
                       RMul(perimetro_braco, Rat(259, 100))), Rat(5043, 100)))
    ELSE NoResult

estimar_estatura_tibia(comprimento_tibia) ==
    IF RLe(comprimento_tibia, Zero)
    THEN Raise("ValueError", "Comprimento da tibia deve ser positivo")
    ELSE Num(RAdd(RMul(Rat(326, 100), comprimento_tibia), Rat(308, 10)))

estimar_estatura_ulna(comprimento_ulna) ==
    IF RLe(comprimento_ulna, Zero)
    THEN Raise("ValueError", "Comprimento da ulna deve ser positivo")
    ELSE Num(RAdd(RMul(Rat(545, 100), comprimento_ulna), Rat(207, 10)))

\* the interval tested with <= and >=: 20 and 42 themselves are refused
calcular_idade_corrigida_aberto(idade_cronologica_meses, idade_gestacional_semanas) ==
    IF RLe(idade_gestacional_semanas, IntLit(20)) \/ RGe(idade_gestacional_semanas, IntLit(42))
    THEN Raise("ValueError", "Idade gestacional deve estar entre 20-42 semanas")
    ELSE Num(RSub(idade_cronologica_meses,
                  RDiv(RSub(IntLit(40), idade_gestacional_semanas), Rat(434524, 100000))))

calcular_idade_corrigida(idade_cronologica_meses, idade_gestacional_semanas) ==
    IF RLt(idade_gestacional_semanas, IntLit(20)) \/ RGt(idade_gestacional_semanas, IntLit(42))
    THEN Raise("ValueError", "Idade gestacional deve estar entre 20-42 semanas")
    ELSE Num(RSub(idade_cronologica_meses,
                  RDiv(RSub(IntLit(40), idade_gestacional_semanas), Rat(434524, 100000))))

(***************************************************************************)
(* Formula functions, lines 80-167                                         *)
(***************************************************************************)
\* 1.21*s - 0.008*s**2 - k, the male quadratic of lines 97-108
QuadraticaMasculina(soma_dobras, k) ==
    RSub(RSub(RMul(Rat(121, 100), soma_dobras),
              RMul(Rat(8, 1000), RMul(soma_dobras, soma_dobras))), k)

\* the Tanner stage is not validated: an invalid stage falls through to the formulas
calcular_percentual_gordura_sem_tanner(soma_dobras, sexo, estagio_tanner, raca) ==
    IF RLe(soma_dobras, Zero)
    THEN Raise("ValueError", "Soma de dobras deve ser positiva")
    ELSE IF RGt(soma_dobras, IntLit(35))
    THEN IF sexo = "MASCULINO"
         THEN Num(RAdd(RMul(Rat(783, 1000), soma_dobras), Rat(16, 10)))
         ELSE Num(RAdd(RMul(Rat(546, 1000), soma_dobras), Rat(97, 10)))
    ELSE IF sexo = "MASCULINO"
    THEN IF raca \in {"BRANCA", "NEGRA"} /\ estagio_tanner \in 1..5
         THEN Num(QuadraticaMasculina(soma_dobras, Rat(17, 10)))
         ELSE NoResult
    ELSE Num(RSub(RSub(RMul(Rat(133, 100), soma_dobras),
                       RMul(Rat(13, 1000), RMul(soma_dobras, soma_dobras))),
                  Rat(25, 10)))

\* the tier threshold tested with >=: a sum of exactly 35 takes the linear tier
calcular_percentual_gordura_limiar(soma_dobras, sexo, estagio_tanner, raca) ==
    IF RLe(soma_dobras, Zero)
    THEN Raise("ValueError", "Soma de dobras deve ser positiva")
    ELSE IF estagio_tanner \notin {1, 2, 3, 4, 5}
    THEN Raise("ValueError", "Estagio de Tanner deve ser entre 1 e 5")
    ELSE IF RGe(soma_dobras, IntLit(35))
    THEN IF sexo = "MASCULINO"
         THEN Num(RAdd(RMul(Rat(783, 1000), soma_dobras), Rat(16, 10)))
         ELSE Num(RAdd(RMul(Rat(546, 1000), soma_dobras), Rat(97, 10)))
    ELSE IF sexo = "MASCULINO"
    THEN IF raca = "BRANCA"
         THEN IF estagio_tanner \in {1, 2}
              THEN Num(QuadraticaMasculina(soma_dobras, Rat(17, 10)))
              ELSE IF estagio_tanner = 3
              THEN Num(QuadraticaMasculina(soma_dobras, Rat(34, 10)))
              ELSE Num(QuadraticaMasculina(soma_dobras, Rat(55, 10)))
         ELSE IF raca = "NEGRA"
         THEN IF estagio_tanner \in {1, 2}
              THEN Num(QuadraticaMasculina(soma_dobras, Rat(32, 10)))
              ELSE IF estagio_tanner = 3
              THEN Num(QuadraticaMasculina(soma_dobras, Rat(52, 10)))
              ELSE Num(QuadraticaMasculina(soma_dobras, Rat(68, 10)))
         ELSE NoResult
    ELSE Num(RSub(RSub(RMul(Rat(133, 100), soma_dobras),
                       RMul(Rat(13, 1000), RMul(soma_dobras, soma_dobras))),
                  Rat(25, 10)))

calcular_percentual_gordura(soma_dobras, sexo, estagio_tanner, raca) ==
    IF RLe(soma_dobras, Zero)
    THEN Raise("ValueError", "Soma de dobras deve ser positiva")
    ELSE IF estagio_tanner \notin {1, 2, 3, 4, 5}
    THEN Raise("ValueError", "Estagio de Tanner deve ser entre 1 e 5")
    ELSE IF RGt(soma_dobras, IntLit(35))
    THEN IF sexo = "MASCULINO"
         THEN Num(RAdd(RMul(Rat(783, 1000), soma_dobras), Rat(16, 10)))
         ELSE Num(RAdd(RMul(Rat(546, 1000), soma_dobras), Rat(97, 10)))
    ELSE IF sexo = "MASCULINO"
    THEN IF raca = "BRANCA"
         THEN IF estagio_tanner \in {1, 2}
              THEN Num(QuadraticaMasculina(soma_dobras, Rat(17, 10)))
              ELSE IF estagio_tanner = 3
              THEN Num(QuadraticaMasculina(soma_dobras, Rat(34, 10)))
              ELSE Num(QuadraticaMasculina(soma_dobras, Rat(55, 10)))
         ELSE IF raca = "NEGRA"
         THEN IF estagio_tanner \in {1, 2}
              THEN Num(QuadraticaMasculina(soma_dobras, Rat(32, 10)))
              ELSE IF estagio_tanner = 3
              THEN Num(QuadraticaMasculina(soma_dobras, Rat(52, 10)))
              ELSE Num(QuadraticaMasculina(soma_dobras, Rat(68, 10)))
         ELSE NoResult
    ELSE Num(RSub(RSub(RMul(Rat(133, 100), soma_dobras),
                       RMul(Rat(13, 1000), RMul(soma_dobras, soma_dobras))),
                  Rat(25, 10)))

calcular_circ_muscular_braco(perimetro_braco, dobra_tricipital) ==
    IF RLe(perimetro_braco, Zero) \/ RLe(dobra_tricipital, Zero)
    THEN Raise("ValueError", "Medidas devem ser positivas")
    ELSE Num(RSub(perimetro_braco,
                  RMul(Rat(314, 1000), RDiv(dobra_tricipital, IntLit(10)))))

calcular_area_gorda_braco(circunferencia_braco, area_muscular_braco) ==
    IF RLe(circunferencia_braco, Zero) \/ RLe(area_muscular_braco, Zero)
    THEN Raise("ValueError", "Medidas devem ser positivas")
    ELSE LET q == RDiv(circunferencia_braco, Rat(314, 100))
         IN  Num(RSub(RMul(Rat(79, 100), RMul(q, q)), area_muscular_braco))

calcular_area_muscular_braco(circunferencia_braco, dobra_tricipital) ==
    IF RLe(circunferencia_braco, Zero) \/ RLe(dobra_tricipital, Zero)
    THEN Raise("ValueError", "Medidas devem ser positivas")
    ELSE LET dobra_cm == RDiv(dobra_tricipital, IntLit(10))
             d == RSub(circunferencia_braco, RMul(Rat(314, 1000), dobra_cm))
         IN  Num(RDiv(RMul(d, d), Rat(1256, 100)))

\* the dict carries a fourth key with the mean of the three estimates
estimar_estatura_paralisia_cerebral_com_media(comprimento_superior, comprimento_tibial, comprimento_joelho) ==
    LET ct == RAdd(RAdd(RMul(Rat(326, 100), comprimento_tibial), Rat(308, 10)), Rat(14, 10))
        cs == RAdd(RAdd(RMul(Rat(435, 100), comprimento_superior), Rat(218, 10)), Rat(17, 10))
        cj == RAdd(RAdd(RMul(Rat(269, 100), comprimento_joelho), Rat(242, 10)), Rat(11, 10))
    IN  [kind |-> "dict", Estimada_CT |-> ct, Estimada_CS |-> cs, Estimada_CJ |-> cj,
         Media |-> RDiv(RAdd(RAdd(ct, cs), cj), IntLit(3))]

\* returns the dict medidas; no argument is validated
estimar_estatura_paralisia_cerebral(comprimento_superior, comprimento_tibial, comprimento_joelho) ==
    [kind |-> "dict",
     Estimada_CT |-> RAdd(RAdd(RMul(Rat(326, 100), comprimento_tibial), Rat(308, 10)),
                          Rat(14, 10)),
     Estimada_CS |-> RAdd(RAdd(RMul(Rat(435, 100), comprimento_superior), Rat(218, 10)),
                          Rat(17, 10)),
     Estimada_CJ |-> RAdd(RAdd(RMul(Rat(269, 100), comprimento_joelho), Rat(242, 10)),
                          Rat(11, 10))]

\* no argument is validated
estimar_estatura_paralisia_adolescente(idade, sexo, comprimento_ulna) ==
    LET sexo_bin == IF sexo = "MASCULINO" THEN IntLit(1) ELSE Zero
    IN  Num(RAdd(RAdd(RAdd(Rat(3035, 100), RMul(Rat(129, 100), idade)),
                      RMul(Rat(77, 100), sexo_bin)),
                 RMul(Rat(432, 100), comprimento_ulna)))

\* the upper bound tested with > instead of >=: at 100 the division by zero runs
calcular_peso_corrigido_amputacao_limite(peso_atual, percentual_amputacao) ==
    IF RLe(peso_atual, Zero)
    THEN Raise("ValueError", "Peso atual deve ser positivo")
    ELSE IF RLt(percentual_amputacao, Zero) \/ RGt(percentual_amputacao, IntLit(100))
    THEN Raise("ValueError", "Percentual de amputacao deve estar entre 0-100%")
    ELSE IF percentual_amputacao = IntLit(100)
    THEN Raise("ZeroDivisionError", "float division by zero")
    ELSE Num(RDiv(RMul(peso_atual, IntLit(100)),
                  RSub(IntLit(100), percentual_amputacao)))

calcular_peso_corrigido_amputacao(peso_atual, percentual_amputacao) ==
    IF RLe(peso_atual, Zero)
    THEN Raise("ValueError", "Peso atual deve ser positivo")
    ELSE IF RLt(percentual_amputacao, Zero) \/ RGe(percentual_amputacao, IntLit(100))
    THEN Raise("ValueError", "Percentual de amputacao deve estar entre 0-100%")
    ELSE Num(RDiv(RMul(peso_atual, IntLit(100)),
                  RSub(IntLit(100), percentual_amputacao)))

\* the combination is not refused: with both factors the activity factor wins
calcular_gasto_energetico_total_sem_recusa(ere, fator_atividade, fator_estresse) ==
    IF RLe(ere, Zero)
    THEN Raise("ValueError", "ERE deve ser positivo")
    ELSE IF Truthy(fator_atividade)
    THEN Num(RMul(ere, fator_atividade))
    ELSE IF Truthy(fator_estresse)
    THEN Num(RMul(ere, fator_estresse))
    ELSE Num(ere)

\* a factor counted as supplied when it is above 1.0, not by its truth value
calcular_gasto_energetico_total_acima_de_um(ere, fator_atividade, fator_estresse) ==
    LET fornecido(f) == f # None /\ RGt(f, IntLit(1))
    IN  IF RLe(ere, Zero)
        THEN Raise("ValueError", "ERE deve ser positivo")
        ELSE IF fornecido(fator_atividade) /\ fornecido(fator_estresse)
        THEN Raise("ValueError", "Use apenas fator de atividade OU fator de estresse")
        ELSE IF fornecido(fator_atividade)
        THEN Num(RMul(ere, fator_atividade))
        ELSE IF fornecido(fator_estresse)
        THEN Num(RMul(ere, fator_estresse))
        ELSE Num(ere)

\* fator_atividade, fator_estresse: Optional[float], tested by truth value
calcular_gasto_energetico_total(ere, fator_atividade, fator_estresse) ==
    IF RLe(ere, Zero)
    THEN Raise("ValueError", "ERE deve ser positivo")
    ELSE IF Truthy(fator_atividade) /\ Truthy(fator_estresse)
    THEN Raise("ValueError", "Use apenas fator de atividade OU fator de estresse")
    ELSE IF Truthy(fator_atividade)
    THEN Num(RMul(ere, fator_atividade))
    ELSE IF Truthy(fator_estresse)
    THEN Num(RMul(ere, fator_estresse))
    ELSE Num(ere)

(***************************************************************************)
(* Formula functions, lines 169-292                                        *)
(***************************************************************************)
\* a*x + b, for decimal coefficients given as rationals
Linear(a, x, b) == RAdd(RMul(a, x), b)

\* lines 185/190 and 187/192 up to the band constant:
\* c0 - c1*idade + fator_atividade*(cp*peso + ce*estatura)
EERBase(c0, c1, cp, ce, idade, peso, estatura, fator_atividade) ==
    RAdd(RSub(c0, RMul(c1, idade)),
         RMul(fator_atividade, RAdd(RMul(cp, peso), RMul(ce, estatura))))

\* without the idade < 0 test: a negative age lands in the first band
calcular_requerimento_energetico_sem_idade(idade, peso, estatura, sexo, fator_atividade) ==
    IF RLe(peso, Zero) \/ RLe(estatura, Zero) \/ RLe(fator_atividade, Zero)
    THEN Raise("ValueError", "Valores devem ser positivos")
    ELSE LET lactente == RSub(RMul(IntLit(89), peso), IntLit(100))
             masc == EERBase(Rat(885, 10), Rat(619, 10), Rat(267, 10), IntLit(903),
                             idade, peso, estatura, fator_atividade)
             fem == EERBase(Rat(1353, 10), Rat(308, 10), IntLit(10), IntLit(934),
                            idade, peso, estatura, fator_atividade)
         IN  IF RLe(idade, Rat(25, 100)) THEN Num(RAdd(lactente, IntLit(175)))
             ELSE IF RLe(idade, Rat(5, 10)) THEN Num(RAdd(lactente, IntLit(56)))
             ELSE IF RLe(idade, IntLit(1)) THEN Num(RAdd(lactente, IntLit(22)))
             ELSE IF RLe(idade, Rat(292, 100)) THEN Num(RAdd(lactente, IntLit(20)))
             ELSE IF RLe(IntLit(3), idade) /\ RLt(idade, IntLit(9))
             THEN IF sexo = "MASCULINO"
                  THEN Num(RAdd(masc, IntLit(20)))
                  ELSE Num(RAdd(fem, IntLit(20)))
             ELSE IF RLe(IntLit(9), idade) /\ RLe(idade, IntLit(18))
             THEN IF sexo = "MASCULINO"
                  THEN Num(RAdd(masc, IntLit(25)))
                  ELSE Num(RAdd(fem, IntLit(25)))
             ELSE NoResult

\* the boundary age 9 kept in the lower band: 3 <= idade <= 9, 9 < idade <= 18
calcular_requerimento_energetico_nove_abaixo(idade, peso, estatura, sexo, fator_atividade) ==
    IF RLt(idade, Zero) \/ RLe(peso, Zero) \/ RLe(estatura, Zero)
       \/ RLe(fator_atividade, Zero)
    THEN Raise("ValueError", "Valores devem ser positivos")
    ELSE LET lactente == RSub(RMul(IntLit(89), peso), IntLit(100))
             masc == EERBase(Rat(885, 10), Rat(619, 10), Rat(267, 10), IntLit(903),
                             idade, peso, estatura, fator_atividade)
             fem == EERBase(Rat(1353, 10), Rat(308, 10), IntLit(10), IntLit(934),
                            idade, peso, estatura, fator_atividade)
         IN  IF RLe(idade, Rat(25, 100)) THEN Num(RAdd(lactente, IntLit(175)))
             ELSE IF RLe(idade, Rat(5, 10)) THEN Num(RAdd(lactente, IntLit(56)))
             ELSE IF RLe(idade, IntLit(1)) THEN Num(RAdd(lactente, IntLit(22)))
             ELSE IF RLe(idade, Rat(292, 100)) THEN Num(RAdd(lactente, IntLit(20)))
             ELSE IF RLe(IntLit(3), idade) /\ RLe(idade, IntLit(9))
             THEN IF sexo = "MASCULINO"
                  THEN Num(RAdd(masc, IntLit(20)))
                  ELSE Num(RAdd(fem, IntLit(20)))
             ELSE IF RLt(IntLit(9), idade) /\ RLe(idade, IntLit(18))
             THEN IF sexo = "MASCULINO"
                  THEN Num(RAdd(masc, IntLit(25)))
                  ELSE Num(RAdd(fem, IntLit(25)))
             ELSE NoResult

calcular_requerimento_energetico(idade, peso, estatura, sexo, fator_atividade) ==
    IF RLt(idade, Zero) \/ RLe(peso, Zero) \/ RLe(estatura, Zero)
       \/ RLe(fator_atividade, Zero)
    THEN Raise("ValueError", "Valores devem ser positivos")
    ELSE LET lactente == RSub(RMul(IntLit(89), peso), IntLit(100))
             masc == EERBase(Rat(885, 10), Rat(619, 10), Rat(267, 10), IntLit(903),
                             idade, peso, estatura, fator_atividade)
             fem == EERBase(Rat(1353, 10), Rat(308, 10), IntLit(10), IntLit(934),
                            idade, peso, estatura, fator_atividade)
         IN  IF RLe(idade, Rat(25, 100)) THEN Num(RAdd(lactente, IntLit(175)))
             ELSE IF RLe(idade, Rat(5, 10)) THEN Num(RAdd(lactente, IntLit(56)))
             ELSE IF RLe(idade, IntLit(1)) THEN Num(RAdd(lactente, IntLit(22)))
             ELSE IF RLe(idade, Rat(292, 100)) THEN Num(RAdd(lactente, IntLit(20)))
             ELSE IF RLe(IntLit(3), idade) /\ RLt(idade, IntLit(9))
             THEN IF sexo = "MASCULINO"
                  THEN Num(RAdd(masc, IntLit(20)))
                  ELSE Num(RAdd(fem, IntLit(20)))
             ELSE IF RLe(IntLit(9), idade) /\ RLe(idade, IntLit(18))
             THEN IF sexo = "MASCULINO"
                  THEN Num(RAdd(masc, IntLit(25)))
                  ELSE Num(RAdd(fem, IntLit(25)))
             ELSE NoResult

\* the bands tested with <: ages 3, 10 and 18 move to the band above
calcular_tmb_exclusivo(peso, idade, sexo) ==
    IF RLe(peso, Zero) \/ RLt(idade, Zero)
    THEN Raise("ValueError", "Peso e idade devem ser positivos")
    ELSE IF sexo = "MASCULINO"
    THEN IF RLt(idade, IntLit(3)) THEN Num(Linear(Rat(609, 10), peso, IntLit(-54)))
         ELSE IF RLt(idade, IntLit(10)) THEN Num(Linear(Rat(227, 10), peso, IntLit(495)))
         ELSE IF RLt(idade, IntLit(18)) THEN Num(Linear(Rat(175, 10), peso, IntLit(651)))
         ELSE NoResult
    ELSE IF RLt(idade, IntLit(3)) THEN Num(Linear(IntLit(61), peso, IntLit(-51)))
         ELSE IF RLt(idade, IntLit(10)) THEN Num(Linear(Rat(225, 10), peso, IntLit(499)))
         ELSE IF RLt(idade, IntLit(18)) THEN Num(Linear(Rat(122, 10), peso, IntLit(746)))
         ELSE NoResult

calcular_tmb(peso, idade, sexo) ==
    IF RLe(peso, Zero) \/ RLt(idade, Zero)
    THEN Raise("ValueError", "Peso e idade devem ser positivos")
    ELSE IF sexo = "MASCULINO"
    THEN IF RLe(idade, IntLit(3)) THEN Num(Linear(Rat(609, 10), peso, IntLit(-54)))
         ELSE IF RLe(idade, IntLit(10)) THEN Num(Linear(Rat(227, 10), peso, IntLit(495)))
         ELSE IF RLe(idade, IntLit(18)) THEN Num(Linear(Rat(175, 10), peso, IntLit(651)))
         ELSE NoResult
    ELSE IF RLe(idade, IntLit(3)) THEN Num(Linear(IntLit(61), peso, IntLit(-51)))
         ELSE IF RLe(idade, IntLit(10)) THEN Num(Linear(Rat(225, 10), peso, IntLit(499)))
         ELSE IF RLe(idade, IntLit(18)) THEN Num(Linear(Rat(122, 10), peso, IntLit(746)))
         ELSE NoResult

\* cp*peso + ca*altura + k
BasePC(cp, peso, ca, altura, k) == RAdd(RAdd(RMul(cp, peso), RMul(ca, altura)), k)

\* the stress factor added to the base instead of multiplying it
calcular_necessidade_pc_soma(peso, altura, sexo, idade, fator_estresse) ==
    IF RLe(peso, Zero) \/ RLe(altura, Zero) \/ RLt(idade, Zero)
       \/ RLe(fator_estresse, Zero)
    THEN Raise("ValueError", "Valores devem ser positivos")
    ELSE IF RGt(idade, IntLit(18))
    THEN Raise("UnboundLocalError", "base")
    ELSE LET base ==
                 IF sexo = "FEMININO"
                 THEN IF RLe(idade, IntLit(3))
                      THEN BasePC(Rat(1625, 100), peso, Rat(10232, 10), altura,
                                  Rat(-4135, 10))
                      ELSE IF RLe(idade, IntLit(10))
                      THEN BasePC(Rat(1697, 100), peso, Rat(1618, 10), altura,
                                  Rat(3712, 10))
                      ELSE BasePC(Rat(8365, 1000), peso, IntLit(465), altura,
                                  IntLit(200))
                 ELSE IF RLe(idade, IntLit(3))
                      THEN BasePC(Rat(167, 1000), peso, Rat(15174, 10), altura,
                                  Rat(-6176, 10))
                      ELSE IF RLe(idade, IntLit(10))
                      THEN BasePC(Rat(196, 10), peso, Rat(1303, 10), altura,
                                  Rat(4149, 10))
                      ELSE BasePC(Rat(1625, 100), peso, Rat(1372, 10), altura,
                                  Rat(5155, 10))
         IN  Num(RAdd(base, fator_estresse))

\* for idade > 18 no branch assigns base, and line 236 reads the unbound local
calcular_necessidade_pc(peso, altura, sexo, idade, fator_estresse) ==
    IF RLe(peso, Zero) \/ RLe(altura, Zero) \/ RLt(idade, Zero)
       \/ RLe(fator_estresse, Zero)
    THEN Raise("ValueError", "Valores devem ser positivos")
    ELSE IF RGt(idade, IntLit(18))
    THEN Raise("UnboundLocalError", "base")
    ELSE LET base ==
                 IF sexo = "FEMININO"
                 THEN IF RLe(idade, IntLit(3))
                      THEN BasePC(Rat(1625, 100), peso, Rat(10232, 10), altura,
                                  Rat(-4135, 10))
                      ELSE IF RLe(idade, IntLit(10))
                      THEN BasePC(Rat(1697, 100), peso, Rat(1618, 10), altura,
                                  Rat(3712, 10))
                      ELSE BasePC(Rat(8365, 1000), peso, IntLit(465), altura,
                                  IntLit(200))
                 ELSE IF RLe(idade, IntLit(3))
                      THEN BasePC(Rat(167, 1000), peso, Rat(15174, 10), altura,
                                  Rat(-6176, 10))
                      ELSE IF RLe(idade, IntLit(10))
                      THEN BasePC(Rat(196, 10), peso, Rat(1303, 10), altura,
                                  Rat(4149, 10))
                      ELSE BasePC(Rat(1625, 100), peso, Rat(1372, 10), altura,
                                  Rat(5155, 10))
         IN  Num(RMul(base, fator_estresse))

\* an unrecognized level answered with None instead of the number 0
necessidade_energetica_pc_5_11_sem_sentinela(altura, nivel_atividade) ==
    IF nivel_atividade = "leve a moderada" THEN Num(RMul(Rat(139, 10), altura))
    ELSE IF nivel_atividade = "restrita intensa" THEN Num(RMul(IntLit(10), altura))
    ELSE IF nivel_atividade = "restricao fisica grave"
    THEN Num(RMul(Rat(111, 10), altura))
    ELSE NoResult

\* nivel_atividade is compared with the NivelAtividade member values
necessidade_energetica_pc_5_11(altura, nivel_atividade) ==
    IF nivel_atividade = "leve a moderada" THEN Num(RMul(Rat(139, 10), altura))
    ELSE IF nivel_atividade = "restrita intensa" THEN Num(RMul(IntLit(10), altura))
    ELSE IF nivel_atividade = "restricao fisica grave"
    THEN Num(RMul(Rat(111, 10), altura))
    ELSE Num(Zero)

\* the coefficients 11 and 14 exchanged between the two ambulation strings
necessidade_energetica_pc_estaveis_trocada(altura, condicao_motora) ==
    IF condicao_motora = "sem disfuncao motora" THEN Num(RMul(IntLit(15), altura))
    ELSE IF condicao_motora = "nao deambular (caminhar)"
    THEN Num(RMul(IntLit(14), altura))
    ELSE IF condicao_motora = "nao apresentar disfuncao mas deambular"
    THEN Num(RMul(IntLit(11), altura))
    ELSE Num(Zero)

necessidade_energetica_pc_estaveis(altura, condicao_motora) ==
    IF condicao_motora = "sem disfuncao motora" THEN Num(RMul(IntLit(15), altura))
    ELSE IF condicao_motora = "nao deambular (caminhar)"
    THEN Num(RMul(IntLit(11), altura))
    ELSE IF condicao_motora = "nao apresentar disfuncao mas deambular"
    THEN Num(RMul(IntLit(14), altura))
    ELSE Num(Zero)

necessidade_energetica_pc(peso, altura, idade, sexo) ==
    IF sexo = "MASCULINO"
    THEN Num(RSub(RAdd(RAdd(Rat(665, 10), RMul(Rat(1375, 100), peso)),
                       RMul(Rat(5003, 1000), altura)),
                  RMul(Rat(6775, 1000), idade)))
    ELSE Num(RSub(RAdd(RAdd(Rat(651, 10), RMul(Rat(956, 100), peso)),
                       RMul(Rat(185, 100), altura)),
                  RMul(Rat(4676, 1000), idade)))

necessidade_sindrome_down(altura, sexo) ==
    IF sexo = "MASCULINO"
    THEN Num(RMul(Rat(161, 10), altura))
    ELSE Num(RMul(Rat(143, 10), altura))

geb_critica(idade_meses, peso, temp_c) ==
    Num(RMul(RSub(RAdd(RAdd(RMul(IntLit(17), idade_meses), RMul(IntLit(48), peso)),
                       RMul(IntLit(292), temp_c)),
                  IntLit(9677)),
             Rat(239, 1000)))

\* estatura is not used; no argument is validated
tmb_schofield(peso, estatura, idade, sexo) ==
    IF sexo = "MASCULINO"
    THEN IF RLe(idade, IntLit(3)) THEN Num(Linear(Rat(5448, 100), peso, Rat(-3033, 100)))
         ELSE IF RLe(idade, IntLit(10)) THEN Num(Linear(Rat(227, 10), peso, IntLit(505)))
         ELSE IF RLe(idade, IntLit(18)) THEN Num(Linear(Rat(134, 10), peso, IntLit(693)))
         ELSE NoResult
    ELSE IF RLe(idade, IntLit(3)) THEN Num(Linear(Rat(5829, 100), peso, Rat(-3105, 100)))
         ELSE IF RLe(idade, IntLit(10)) THEN Num(Linear(Rat(203, 10), peso, IntLit(486)))
         ELSE IF RLe(idade, IntLit(18)) THEN Num(Linear(Rat(177, 10), peso, IntLit(659)))
         ELSE NoResult

(***************************************************************************)
(* Inputs                                                                  *)
(***************************************************************************)
\* number of steps of the common input grid 10, 20, ...
MaxGrade == 3

Grade == {IntLit(10 * k) : k \in 1..MaxGrade}

\* measurement arguments: invalid (negative, zero), small, and the grid
Medidas == {IntLit(-1), Zero, Rat(1, 10)} \cup Grade

Pesos == Medidas \cup {IntLit(70), IntLit(95), IntLit(100)}

\* a shorter set for the functions of three or more measurements
MedidasCurtas == {Zero} \cup Grade

\* triceps skinfold (mm)
DobraMm == {IntLit(-1), Zero} \cup Grade

CondicaoArgs == Condicao \cup {"obesidade"}
SexoArgs == Sexo \cup {"Masculino"}
RacaArgs == Raca \cup {"Branca"}

\* gestational ages around the two bounds of [20, 42], and 40 weeks
SemanasArgs == {Rat(199, 10), IntLit(20), IntLit(30), IntLit(40), IntLit(42), Rat(421, 10)}
MesesArgs == {Zero, IntLit(6)} \cup Grade

\* skinfold sums around the tier threshold 35
DobrasArgs == {Zero, IntLit(35), Rat(351, 10)} \cup Grade
\* Tanner stages 1..5 and the two neighbours outside
TannerArgs == 0..6

\* amputation percentages around 0 and 100, and 10.1 (thigh)
PercentualArgs == {IntLit(-1), Zero, Rat(101, 10), Rat(999, 10), IntLit(100),
                   IntLit(150)}

EREArgs == {IntLit(-1), Zero, IntLit(1500)} \cup Grade
\* Optional[float] factors: absent, zero, neutral, above neutral
FatorOpcional == {None, Zero, IntLit(1), Rat(12, 10), IntLit(2)}
\* required factors
FatorArgs == {Zero, Rat(12, 10), Rat(24, 10)}

\* ages (years) on and around every band boundary of the age-banded formulas
Idades == {IntLit(-1), Zero, Rat(25, 100), Rat(5, 10), IntLit(1), Rat(292, 100),
           Rat(295, 100), IntLit(3), IntLit(5), IntLit(9), IntLit(18), IntLit(19)}
          \cup Grade
PesoCurto == {Zero, IntLit(20)}
\* heights in metres
AlturaM == {Zero, Rat(11, 10)}
\* heights in centimetres
AlturaCm == {IntLit(-1), Zero, IntLit(120)} \cup Grade
AlturaCmCurta == {Zero, IntLit(120)}
\* ulna lengths (cm)
UlnaArgs == {Zero, IntLit(25)}

NivelArgs == NivelAtividade \cup {"LEVE_MODERADA"}
CondicaoMotora == {"sem disfuncao motora", "nao deambular (caminhar)",
                   "nao apresentar disfuncao mas deambular"}
CondicaoMotoraArgs == CondicaoMotora \cup {"deambular"}
TempArgs == {IntLit(37), Rat(395, 10)}

(***************************************************************************)
(* State machine: one action per formula function                          *)
(***************************************************************************)
NoCall == [fn |-> "", args |-> <<>>]

Init ==
    /\ pc = "idle"
    /\ call = NoCall
    /\ out = NoResult
    /\ historico = <<>>
    /\ barra = <<>>
    /\ tela = [tipo |-> "nada"]
    /\ anterior = [call |-> NoCall, out |-> NoResult]

\* the caller takes the outcome and is ready for the next call
Return ==
    /\ pc = "returned"
    /\ pc' = "idle"
    /\ call' = NoCall
    /\ out' = NoResult
    /\ UNCHANGED sessao

Call_calcular_peso_ajustado ==
    \E a \in Medidas, i \in Medidas, c \in CondicaoArgs :
        /\ pc = "idle" /\ pc' = "returned"
        /\ call' = [fn |-> "calcular_peso_ajustado",
                    args |-> [peso_atual |-> a, peso_ideal |-> i, condicao |-> c]]
        /\ out' = calcular_peso_ajustado(a, i, c)
        /\ UNCHANGED sessao

Call_calcular_perda_peso ==
    \E u \in Pesos, a \in Pesos :
        /\ pc = "idle" /\ pc' = "returned"
        /\ call' = [fn |-> "calcular_perda_peso",
                    args |-> [peso_usual |-> u, peso_atual |-> a]]
        /\ out' = calcular_perda_peso(u, a)
        /\ UNCHANGED sessao

Call_estimar_peso_crianca ==
    \E j \in MedidasCurtas, b \in MedidasCurtas, s \in SexoArgs, r \in RacaArgs :
        /\ pc = "idle" /\ pc' = "returned"
        /\ call' = [fn |-> "estimar_peso_crianca",
                    args |-> [altura_joelho |-> j, perimetro_braco |-> b, sexo |-> s, raca |-> r]]
        /\ out' = estimar_peso_crianca(j, b, s, r)
        /\ UNCHANGED sessao

Call_estimar_estatura_tibia ==
    \E t \in Medidas :
        /\ pc = "idle" /\ pc' = "returned"
        /\ call' = [fn |-> "estimar_estatura_tibia",
                    args |-> [comprimento_tibia |-> t]]
        /\ out' = estimar_estatura_tibia(t)
        /\ UNCHANGED sessao

Call_estimar_estatura_ulna ==
    \E u \in Medidas :
        /\ pc = "idle" /\ pc' = "returned"
        /\ call' = [fn |-> "estimar_estatura_ulna",
                    args |-> [comprimento_ulna |-> u]]
        /\ out' = estimar_estatura_ulna(u)
        /\ UNCHANGED sessao

Call_calcular_idade_corrigida ==
    \E m \in MesesArgs, g \in SemanasArgs :
        /\ pc = "idle" /\ pc' = "returned"
        /\ call' = [fn |-> "calcular_idade_corrigida",
                    args |-> [idade_cronologica_meses |-> m, idade_gestacional_semanas |-> g]]
        /\ out' = calcular_idade_corrigida(m, g)
        /\ UNCHANGED sessao

Call_calcular_percentual_gordura ==
    \E d \in DobrasArgs, s \in Sexo, t \in TannerArgs, r \in RacaArgs :
        /\ pc = "idle" /\ pc' = "returned"
        /\ call' = [fn |-> "calcular_percentual_gordura",
                    args |-> [soma_dobras |-> d, sexo |-> s, estagio_tanner |-> t, raca |-> r]]
        /\ out' = calcular_percentual_gordura(d, s, t, r)
        /\ UNCHANGED sessao

Call_calcular_circ_muscular_braco ==
    \E b \in Medidas, d \in DobraMm :
        /\ pc = "idle" /\ pc' = "returned"
        /\ call' = [fn |-> "calcular_circ_muscular_braco",
                    args |-> [perimetro_braco |-> b, dobra_tricipital |-> d]]
        /\ out' = calcular_circ_muscular_braco(b, d)
        /\ UNCHANGED sessao

Call_calcular_area_gorda_braco ==
    \E b \in Medidas, m \in Medidas :
        /\ pc = "idle" /\ pc' = "returned"
        /\ call' = [fn |-> "calcular_area_gorda_braco",
                    args |-> [circunferencia_braco |-> b, area_muscular_braco |-> m]]
        /\ out' = calcular_area_gorda_braco(b, m)
        /\ UNCHANGED sessao

Call_calcular_area_muscular_braco ==
    \E b \in Medidas, d \in DobraMm :
        /\ pc = "idle" /\ pc' = "returned"
        /\ call' = [fn |-> "calcular_area_muscular_braco",
                    args |-> [circunferencia_braco |-> b, dobra_tricipital |-> d]]
        /\ out' = calcular_area_muscular_braco(b, d)
        /\ UNCHANGED sessao

Call_estimar_estatura_paralisia_cerebral ==
    \E cs \in MedidasCurtas, ct \in MedidasCurtas, cj \in MedidasCurtas :
        /\ pc = "idle" /\ pc' = "returned"
        /\ call' = [fn |-> "estimar_estatura_paralisia_cerebral",
                    args |-> [comprimento_superior |-> cs, comprimento_tibial |-> ct, comprimento_joelho |-> cj]]
        /\ out' = estimar_estatura_paralisia_cerebral(cs, ct, cj)
        /\ UNCHANGED sessao

Call_estimar_estatura_paralisia_adolescente ==
    \E i \in Idades, s \in Sexo, u \in UlnaArgs :
        /\ pc = "idle" /\ pc' = "returned"
        /\ call' = [fn |-> "estimar_estatura_paralisia_adolescente",
                    args |-> [idade |-> i, sexo |-> s, comprimento_ulna |-> u]]
        /\ out' = estimar_estatura_paralisia_adolescente(i, s, u)
        /\ UNCHANGED sessao

Call_calcular_peso_corrigido_amputacao ==
    \E p \in Pesos, a \in PercentualArgs :
        /\ pc = "idle" /\ pc' = "returned"
        /\ call' = [fn |-> "calcular_peso_corrigido_amputacao",
                    args |-> [peso_atual |-> p, percentual_amputacao |-> a]]
        /\ out' = calcular_peso_corrigido_amputacao(p, a)
        /\ UNCHANGED sessao

Call_calcular_gasto_energetico_total ==
    \E e \in EREArgs, fa \in FatorOpcional, fe \in FatorOpcional :
        /\ pc = "idle" /\ pc' = "returned"
        /\ call' = [fn |-> "calcular_gasto_energetico_total",
                    args |-> [ere |-> e, fator_atividade |-> fa, fator_estresse |-> fe]]
        /\ out' = calcular_gasto_energetico_total(e, fa, fe)
        /\ UNCHANGED sessao

Call_calcular_requerimento_energetico ==
    \E i \in Idades, p \in PesoCurto, e \in AlturaM, s \in Sexo, f \in FatorArgs :
        /\ pc = "idle" /\ pc' = "returned"
        /\ call' = [fn |-> "calcular_requerimento_energetico",
                    args |-> [idade |-> i, peso |-> p, estatura |-> e, sexo |-> s, fator_atividade |-> f]]
        /\ out' = calcular_requerimento_energetico(i, p, e, s, f)
        /\ UNCHANGED sessao

Call_calcular_tmb ==
    \E p \in PesoCurto, i \in Idades, s \in Sexo :
        /\ pc = "idle" /\ pc' = "returned"
        /\ call' = [fn |-> "calcular_tmb",
                    args |-> [peso |-> p, idade |-> i, sexo |-> s]]
        /\ out' = calcular_tmb(p, i, s)
        /\ UNCHANGED sessao

Call_calcular_necessidade_pc ==
    \E p \in PesoCurto, a \in AlturaM, s \in Sexo, i \in Idades, f \in FatorArgs :
        /\ pc = "idle" /\ pc' = "returned"
        /\ call' = [fn |-> "calcular_necessidade_pc",
                    args |-> [peso |-> p, altura |-> a, sexo |-> s, idade |-> i, fator_estresse |-> f]]
        /\ out' = calcular_necessidade_pc(p, a, s, i, f)
        /\ UNCHANGED sessao

Call_necessidade_energetica_pc_5_11 ==
    \E a \in AlturaCm, n \in NivelArgs :
        /\ pc = "idle" /\ pc' = "returned"
        /\ call' = [fn |-> "necessidade_energetica_pc_5_11",
                    args |-> [altura |-> a, nivel_atividade |-> n]]
        /\ out' = necessidade_energetica_pc_5_11(a, n)
        /\ UNCHANGED sessao

Call_necessidade_energetica_pc_estaveis ==
    \E a \in AlturaCm, c \in CondicaoMotoraArgs :
        /\ pc = "idle" /\ pc' = "returned"
        /\ call' = [fn |-> "necessidade_energetica_pc_estaveis",
                    args |-> [altura |-> a, condicao_motora |-> c]]
        /\ out' = necessidade_energetica_pc_estaveis(a, c)
        /\ UNCHANGED sessao

Call_necessidade_energetica_pc ==
    \E p \in PesoCurto, a \in AlturaCmCurta, i \in Idades, s \in Sexo :
        /\ pc = "idle" /\ pc' = "returned"
        /\ call' = [fn |-> "necessidade_energetica_pc",
                    args |-> [peso |-> p, altura |-> a, idade |-> i, sexo |-> s]]
        /\ out' = necessidade_energetica_pc(p, a, i, s)
        /\ UNCHANGED sessao

Call_necessidade_sindrome_down ==
    \E a \in AlturaCm, s \in Sexo :
        /\ pc = "idle" /\ pc' = "returned"
        /\ call' = [fn |-> "necessidade_sindrome_down",
                    args |-> [altura |-> a, sexo |-> s]]
        /\ out' = necessidade_sindrome_down(a, s)
        /\ UNCHANGED sessao

Call_geb_critica ==
    \E m \in MesesArgs, p \in PesoCurto, t \in TempArgs :
        /\ pc = "idle" /\ pc' = "returned"
        /\ call' = [fn |-> "geb_critica",
                    args |-> [idade_meses |-> m, peso |-> p, temp_c |-> t]]
        /\ out' = geb_critica(m, p, t)
        /\ UNCHANGED sessao

Call_tmb_schofield ==
    \E p \in PesoCurto, e \in AlturaM, i \in Idades, s \in Sexo :
        /\ pc = "idle" /\ pc' = "returned"
        /\ call' = [fn |-> "tmb_schofield",
                    args |-> [peso |-> p, estatura |-> e, idade |-> i, sexo |-> s]]
        /\ out' = tmb_schofield(p, e, i, s)
        /\ UNCHANGED sessao

Next ==
    \/ Call_calcular_peso_ajustado
    \/ Call_calcular_perda_peso
    \/ Call_estimar_peso_crianca
    \/ Call_estimar_estatura_tibia
    \/ Call_estimar_estatura_ulna
    \/ Call_calcular_idade_corrigida
    \/ Call_calcular_percentual_gordura
    \/ Call_calcular_circ_muscular_braco
    \/ Call_calcular_area_gorda_braco
    \/ Call_calcular_area_muscular_braco
    \/ Call_estimar_estatura_paralisia_cerebral
    \/ Call_estimar_estatura_paralisia_adolescente
    \/ Call_calcular_peso_corrigido_amputacao
    \/ Call_calcular_gasto_energetico_total
    \/ Call_calcular_requerimento_energetico
    \/ Call_calcular_tmb
    \/ Call_calcular_necessidade_pc
    \/ Call_necessidade_energetica_pc_5_11
    \/ Call_necessidade_energetica_pc_estaveis
    \/ Call_necessidade_energetica_pc
    \/ Call_necessidade_sindrome_down
    \/ Call_geb_critica
    \/ Call_tmb_schofield
    \/ Return

Spec == Init /\ [][Next]_vars

(***************************************************************************)
(* Streamlit session, lines 295-1115                                       *)
(*                                                                         *)
(* Streamlit runs main() from top to bottom on every interaction.  A run   *)
(* first draws the sidebar from st.session_state.historico as it is at     *)
(* that moment (lines 369-376), then the page selected; the handler of the *)
(* button pressed calls its formula, writes the result and appends to the  *)
(* history (after the sidebar was drawn).  Four pages are modelled; the    *)
(* others have the same shape (call, st.success, append).  The entry's     *)
(* 'data' field, datetime.now(), is read only to print the sidebar line    *)
(* and is left out; an entry is its 'tipo' and 'resultado'.  Widget values *)
(* stay inside the min_value/max_value of their st.number_input.           *)
(***************************************************************************)
\* the longest history explored
MaxHistorico == 6
\* inputs vary while the history is shorter than this; after it only the
\* weight-loss page with its default values is used
MaxVariado == 2

\* historico[-5:]
UltimasEntradas == 5

SemTela == [tipo |-> "nada"]

Variado == Len(historico) < MaxVariado

\* reversed(st.session_state.historico[-5:]), the items the sidebar prints
Mostrar(h) ==
    LET n == IF Len(h) <= UltimasEntradas THEN Len(h) ELSE UltimasEntradas
    IN  [i \in 1..n |-> h[Len(h) + 1 - i]]

\* st.session_state.historico.append({'tipo': ..., 'resultado': ..., 'data': ...})
Registrar(h, pagina, resultado) == Append(h, [tipo |-> pagina, resultado |-> resultado])

\* the two except clauses of lines 1112-1115; a None that reaches a format
\* string or a comparison raises TypeError
TelaErro(r) ==
    IF r.kind = "error" /\ r.cls = "ValueError"
    THEN [tipo |-> "erro", prefixo |-> "Erro nos dados de entrada", mensagem |-> r.msg]
    ELSE [tipo |-> "erro", prefixo |-> "Ocorreu um erro inesperado",
          mensagem |-> IF r.kind = "error" THEN r.msg ELSE "TypeError"]

\* the thresholds taken as upper-inclusive: exactly 5 insignificant, exactly
\* 10 moderate
classificacao_perda_inclusiva(resultado) ==
    IF RLe(resultado, IntLit(5)) THEN "Perda insignificante"
    ELSE IF RLe(resultado, IntLit(10)) THEN "Perda moderada"
    ELSE "Perda grave"

\* lines 426-434
classificacao_perda(resultado) ==
    IF RLt(resultado, IntLit(5)) THEN "Perda insignificante"
    ELSE IF RLe(IntLit(5), resultado) /\ RLt(resultado, IntLit(10))
    THEN "Perda moderada"
    ELSE "Perda grave"

\* sum(d[k] for k in chaves)
RECURSIVE SomaValores(_, _)
SomaValores(d, chaves) ==
    IF chaves = {} THEN Zero
    ELSE LET k == CHOOSE x \in chaves : TRUE
         IN  RAdd(d[k], SomaValores(d, chaves \ {k}))

\* sum(resultados.values()) / len(resultados), line 706; "kind" is the model's
\* tag, not a key of the dict
media(resultados) ==
    LET chaves == DOMAIN resultados \ {"kind"}
    IN  RDiv(SomaValores(resultados, chaves), IntLit(Cardinality(chaves)))

\* (peso_usual, peso_atual): the widget defaults, and losses of 4, 5, 8, 10
\* and 20 per cent
EntradasPerda ==
    {<<IntLit(70), IntLit(65)>>} \cup
    (IF Variado
     THEN {<<IntLit(100), IntLit(a)>> : a \in {96, 95, 92, 90, 80}}
     ELSE {})

\* (comprimento_superior, comprimento_tibial, comprimento_joelho)
EntradasEstatura ==
    {<<IntLit(20), IntLit(20), IntLit(15)>>, <<IntLit(10), IntLit(30), IntLit(20)>>}

\* fator_atividade and fator_estresse of the GET page, 1.0 to 2.5
FatoresUI == {IntLit(1), Rat(12, 10)}

\* idade of the requirement page, 0.0 to 18.0
IdadesUI == {Rat(295, 100), IntLit(5)}

\* sidebar button "Limpar Historico", lines 372-376: the run empties the
\* history, draws an empty sidebar and the page's form
Limpar ==
    /\ historico' = <<>>
    /\ barra' = <<>>
    /\ tela' = SemTela
    /\ pc' = "idle"
    /\ call' = NoCall
    /\ out' = NoResult
    /\ UNCHANGED anterior

\* a run with no button pressed (a widget was edited): the sidebar is drawn
\* from the history and the page shows its form only
Reexecutar ==
    /\ pc = "returned"
    /\ pc' = "idle"
    /\ barra' = Mostrar(historico)
    /\ tela' = SemTela
    /\ call' = NoCall
    /\ out' = NoResult
    /\ UNCHANGED <<historico, anterior>>

\* bookkeeping of the model, no code: note the call on screen and its outcome
\* for comparison with a later call
Lembrar ==
    /\ pc = "returned"
    /\ call # NoCall
    /\ anterior' = [call |-> call, out |-> out]
    /\ UNCHANGED <<pc, call, out, historico, barra, tela>>

\* page "Perda de Peso (%)", lines 416-444
Pagina_perda_peso ==
    \E e \in EntradasPerda :
        LET r == calcular_perda_peso(e[1], e[2])
        IN  /\ pc = "idle" /\ pc' = "returned"
            /\ Len(historico) < MaxHistorico
            /\ barra' = Mostrar(historico)
            /\ call' = [fn |-> "calcular_perda_peso",
                        args |-> [peso_usual |-> e[1], peso_atual |-> e[2]]]
            /\ out' = r
            /\ tela' = IF r.kind = "num"
                       THEN [tipo |-> "sucesso", valor |-> r.val,
                             classificacao |-> classificacao_perda(r.val)]
                       ELSE TelaErro(r)
            /\ historico' = IF r.kind = "num"
                            THEN Registrar(historico, "Perda de Peso (%)", r.val)
                            ELSE historico
            /\ UNCHANGED anterior

\* page "Estatura - Paralisia Cerebral (2-12 anos)", lines 678-713
Pagina_estatura_paralisia_cerebral ==
    \E e \in EntradasEstatura :
        LET r == estimar_estatura_paralisia_cerebral(e[1], e[2], e[3])
        IN  /\ pc = "idle" /\ pc' = "returned"
            /\ Variado
            /\ barra' = Mostrar(historico)
            /\ call' = [fn |-> "estimar_estatura_paralisia_cerebral",
                        args |-> [comprimento_superior |-> e[1],
                                  comprimento_tibial |-> e[2],
                                  comprimento_joelho |-> e[3]]]
            /\ out' = r
            /\ tela' = [tipo |-> "sucesso", valor |-> media(r),
                        Estimada_CS |-> r.Estimada_CS,
                        Estimada_CT |-> r.Estimada_CT,
                        Estimada_CJ |-> r.Estimada_CJ]
            /\ historico' = Registrar(historico,
                                      "Estatura - Paralisia Cerebral (2-12 anos)",
                                      media(r))
            /\ UNCHANGED anterior

\* page "Gasto Energetico Total (GET)", lines 796-839: with both factors
\* above 1.0 the handler warns and calls nothing
Pagina_gasto_energetico_total ==
    \E fa \in FatoresUI, fe \in FatoresUI :
        LET ere == IntLit(1500)
            usar_atividade == RGt(fa, IntLit(1))
            usar_estresse == RGt(fe, IntLit(1))
            a == IF usar_atividade THEN fa ELSE None
            s == IF ~usar_atividade /\ usar_estresse THEN fe ELSE None
            r == calcular_gasto_energetico_total(ere, a, s)
        IN  /\ pc = "idle" /\ pc' = "returned"
            /\ Variado
            /\ barra' = Mostrar(historico)
            /\ IF usar_atividade /\ usar_estresse
               THEN /\ call' = NoCall
                    /\ out' = NoResult
                    /\ tela' = [tipo |-> "aviso",
                                mensagem |-> "Preencha apenas um fator adicional (atividade OU estresse)"]
                    /\ UNCHANGED historico
               ELSE /\ call' = [fn |-> "calcular_gasto_energetico_total",
                                args |-> [ere |-> ere, fator_atividade |-> a,
                                          fator_estresse |-> s]]
                    /\ out' = r
                    /\ tela' = IF r.kind = "num"
                               THEN [tipo |-> "sucesso", valor |-> r.val,
                                     fator |-> IF usar_atividade THEN "Atividade Fisica"
                                               ELSE IF usar_estresse THEN "Estresse"
                                               ELSE "Basal"]
                               ELSE TelaErro(r)
                    /\ historico' = IF r.kind = "num"
                                    THEN Registrar(historico,
                                                   "Gasto Energetico Total (GET)", r.val)
                                    ELSE historico
            /\ UNCHANGED anterior

\* page "Requerimento Energetico Criancas/Adolescentes", lines 841-876: a
\* None result is reported as an unsupported age and not logged
Pagina_requerimento_energetico ==
    \E i \in IdadesUI :
        LET r == calcular_requerimento_energetico(i, IntLit(20), Rat(11, 10),
                                                  "MASCULINO", Rat(12, 10))
        IN  /\ pc = "idle" /\ pc' = "returned"
            /\ Variado
            /\ barra' = Mostrar(historico)
            /\ call' = [fn |-> "calcular_requerimento_energetico",
                        args |-> [idade |-> i, peso |-> IntLit(20),
                                  estatura |-> Rat(11, 10), sexo |-> "MASCULINO",
                                  fator_atividade |-> Rat(12, 10)]]
            /\ out' = r
            /\ tela' = IF r = NoResult
                       THEN [tipo |-> "erro", prefixo |-> "",
                             mensagem |-> "Idade fora da faixa suportada (0-18 anos)"]
                       ELSE IF r.kind = "num"
                       THEN [tipo |-> "sucesso", valor |-> r.val]
                       ELSE TelaErro(r)
            /\ historico' = IF r.kind = "num"
                            THEN Registrar(historico,
                                           "Requerimento Energetico Criancas/Adolescentes",
                                           r.val)
                            ELSE historico
            /\ UNCHANGED anterior

NextSessao ==
    \/ Pagina_perda_peso
    \/ Pagina_estatura_paralisia_cerebral
    \/ Pagina_gasto_energetico_total
    \/ Pagina_requerimento_energetico
    \/ Limpar
    \/ Reexecutar
    \/ Lembrar

SpecSessao == Init /\ [][NextSessao]_vars

(***************************************************************************)
(* Vocabulary of the properties                                            *)
(***************************************************************************)
Returned(fn) == pc = "returned" /\ call.fn = fn

IsNum(o) == o.kind = "num"

\* the validation error of the source: every raise statement raises ValueError
IsValueError(o) == o.kind = "error" /\ o.cls = "ValueError"

Positive(x) == RGt(x, Zero)

\* the weight, length, height, skinfold and circumference arguments of a call
MedidasDe(c) ==
    CASE c.fn = "calcular_peso_ajustado" -> {c.args.peso_atual, c.args.peso_ideal}
      [] c.fn = "calcular_perda_peso" -> {c.args.peso_usual, c.args.peso_atual}
      [] c.fn = "estimar_peso_crianca" ->
            {c.args.altura_joelho, c.args.perimetro_braco}
      [] c.fn = "estimar_estatura_tibia" -> {c.args.comprimento_tibia}
      [] c.fn = "estimar_estatura_ulna" -> {c.args.comprimento_ulna}
      [] c.fn = "calcular_percentual_gordura" -> {c.args.soma_dobras}
      [] c.fn = "calcular_circ_muscular_braco" ->
            {c.args.perimetro_braco, c.args.dobra_tricipital}
      [] c.fn = "calcular_area_gorda_braco" -> {c.args.circunferencia_braco}
      [] c.fn = "calcular_area_muscular_braco" ->
            {c.args.circunferencia_braco, c.args.dobra_tricipital}
      [] c.fn = "estimar_estatura_paralisia_cerebral" ->
            {c.args.comprimento_superior, c.args.comprimento_tibial,
             c.args.comprimento_joelho}
      [] c.fn = "estimar_estatura_paralisia_adolescente" -> {c.args.comprimento_ulna}
      [] c.fn = "calcular_peso_corrigido_amputacao" -> {c.args.peso_atual}
      [] c.fn = "calcular_requerimento_energetico" -> {c.args.peso, c.args.estatura}
      [] c.fn = "calcular_tmb" -> {c.args.peso}
      [] c.fn = "calcular_necessidade_pc" -> {c.args.peso, c.args.altura}
      [] c.fn = "necessidade_energetica_pc_5_11" -> {c.args.altura}
      [] c.fn = "necessidade_energetica_pc_estaveis" -> {c.args.altura}
      [] c.fn = "necessidade_energetica_pc" -> {c.args.peso, c.args.altura}
      [] c.fn = "necessidade_sindrome_down" -> {c.args.altura}
      [] c.fn = "geb_critica" -> {c.args.peso}
      [] c.fn = "tmb_schofield" -> {c.args.peso, c.args.estatura}
      [] OTHER -> {}

\* the formulas that take an age in years
FormulasComIdade ==
    {"calcular_requerimento_energetico", "calcular_tmb", "tmb_schofield",
     "calcular_necessidade_pc", "necessidade_energetica_pc",
     "estimar_estatura_paralisia_adolescente"}

(***************************************************************************)
(* C1.  Every formula function rejects a non-positive weight, length,      *)
(* height, skinfold or circumference argument with the validation error    *)
(* and returns no number.  Stated as claimed; the code violates it.        *)
(***************************************************************************)
C1_RejectsNonPositiveMeasurement ==
    (pc = "returned" /\ \E m \in MedidasDe(call) : RLe(m, Zero))
        => IsValueError(out)

(***************************************************************************)
(* C2.  A formula that takes an age, called with a negative age, either    *)
(* fails validation or yields no result; it never returns a number.        *)
(* Stated as claimed; the code violates it.                                *)
(***************************************************************************)
C2_NegativeAgeNeverBanded ==
    (pc = "returned" /\ call.fn \in FormulasComIdade /\ RLt(call.args.idade, Zero))
        => (IsValueError(out) \/ out = NoResult)

(***************************************************************************)
(* C3.  calcular_peso_corrigido_amputacao fails with the validation error  *)
(* whenever the percentage is < 0 or >= 100 (so the divisor 100 - p is     *)
(* positive whenever the division runs), and for every weight > 0 and      *)
(* 0 <= p < 100 returns weight * 100 / (100 - p); 70 and 10.1 give         *)
(* 70*100/89.9 = 70000/899.                                                *)
(***************************************************************************)
C3_AmputationCorrectedWeight ==
    Returned("calcular_peso_corrigido_amputacao") =>
        LET p == call.args.peso_atual
            a == call.args.percentual_amputacao
            fora == RLt(a, Zero) \/ RGe(a, IntLit(100))
        IN  /\ fora => IsValueError(out)
            /\ IsNum(out) => Positive(RSub(IntLit(100), a))
            /\ (Positive(p) /\ ~fora) =>
                   out = Num(RDiv(RMul(p, IntLit(100)), RSub(IntLit(100), a)))
            /\ (p = IntLit(70) /\ a = Rat(101, 10)) => out = Num(Rat(70000, 899))

\* the call at exactly 100 percent is refused
C3_Witness ==
    /\ Returned("calcular_peso_corrigido_amputacao")
    /\ call.args.peso_atual = IntLit(70)
    /\ call.args.percentual_amputacao = IntLit(100)
    /\ IsValueError(out)

(***************************************************************************)
(* C4.  calcular_idade_corrigida fails with the validation error exactly   *)
(* when the gestational age is outside the closed interval [20, 42], and   *)
(* for every accepted value returns chronological - (40 - g)/4.34524; at   *)
(* 40 weeks the chronological age is returned unchanged.                   *)
(***************************************************************************)
C4_CorrectedGestationalAge ==
    Returned("calcular_idade_corrigida") =>
        LET m == call.args.idade_cronologica_meses
            g == call.args.idade_gestacional_semanas
            dentro == RLe(IntLit(20), g) /\ RLe(g, IntLit(42))
        IN  /\ IsValueError(out) <=> ~dentro
            /\ dentro => out = Num(RSub(m, RDiv(RSub(IntLit(40), g),
                                                Rat(434524, 100000))))
            /\ g = IntLit(40) => out = Num(m)

\* the lower bound 20 itself is accepted and corrected by 20/4.34524 months
C4_Witness ==
    /\ Returned("calcular_idade_corrigida")
    /\ call.args.idade_gestacional_semanas = IntLit(20)
    /\ call.args.idade_cronologica_meses = IntLit(10)
    /\ IsNum(out)
    /\ RLt(out.val, IntLit(10))

(***************************************************************************)
(* C5 as claimed.  A Tanner stage outside 1..5 fails with an error kind    *)
(* different from the kind raised for a non-positive skinfold sum.  The    *)
(* code violates it: both raise the same class.                            *)
(***************************************************************************)
\* the class raised for a non-positive skinfold sum
ClasseErroDobras == calcular_percentual_gordura(Zero, "MASCULINO", 1, "BRANCA").cls

C5_DistinctErrorKinds ==
    (/\ Returned("calcular_percentual_gordura")
     /\ Positive(call.args.soma_dobras)
     /\ call.args.estagio_tanner \notin 1..5)
        => (out.kind = "error" /\ out.cls # ClasseErroDobras)

(***************************************************************************)
(* C5 amended.  A Tanner stage outside 1..5 (skinfold sum positive) fails  *)
(* with the same error kind, ValueError, as a non-positive skinfold sum;   *)
(* the two failures differ only in their message; a non-positive sum is    *)
(* reported first, whatever the stage; no number is returned in either     *)
(* case.                                                                   *)
(***************************************************************************)
C5_SameKindDistinctMessage ==
    Returned("calcular_percentual_gordura") =>
        LET d == call.args.soma_dobras
            t == call.args.estagio_tanner
        IN  /\ ~Positive(d) =>
                 out = Raise("ValueError", "Soma de dobras deve ser positiva")
            /\ (Positive(d) /\ t \notin 1..5) =>
                 out = Raise("ValueError", "Estagio de Tanner deve ser entre 1 e 5")
            /\ (Positive(d) /\ t \in 1..5) => out.kind # "error"

C5_Witness ==
    /\ Returned("calcular_percentual_gordura")
    /\ Positive(call.args.soma_dobras)
    /\ call.args.estagio_tanner = 6
    /\ IsValueError(out)
    /\ out.msg # "Soma de dobras deve ser positiva"

(***************************************************************************)
(* C6.  calcular_gasto_energetico_total with a positive basal rate fails   *)
(* with the validation error (combination) when both factors are supplied  *)
(* and greater than 1, and returns the basal rate unchanged when neither   *)
(* factor is supplied.                                                     *)
(***************************************************************************)
AcimaDeUm(f) == f # None /\ RGt(f, IntLit(1))

C6_TotalEnergyCombination ==
    (Returned("calcular_gasto_energetico_total") /\ Positive(call.args.ere)) =>
        LET fa == call.args.fator_atividade
            fe == call.args.fator_estresse
        IN  /\ (AcimaDeUm(fa) /\ AcimaDeUm(fe)) =>
                 out = Raise("ValueError",
                             "Use apenas fator de atividade OU fator de estresse")
            /\ (fa = None /\ fe = None) => out = Num(call.args.ere)

C6_Witness ==
    /\ Returned("calcular_gasto_energetico_total")
    /\ call.args.ere = IntLit(1500)
    /\ call.args.fator_atividade = Rat(12, 10)
    /\ call.args.fator_estresse = IntLit(2)
    /\ IsValueError(out)

(***************************************************************************)
(* C7.  For every positive basal rate and every value of the supplied      *)
(* factor, when exactly one factor is supplied the result is the basal     *)
(* rate multiplied by that factor.  Stated as claimed; the code violates   *)
(* it for a supplied factor of 0.                                          *)
(***************************************************************************)
C7_SingleFactorMultiplies ==
    (Returned("calcular_gasto_energetico_total") /\ Positive(call.args.ere)) =>
        LET fa == call.args.fator_atividade
            fe == call.args.fator_estresse
        IN  /\ (fa # None /\ fe = None) => out = Num(RMul(call.args.ere, fa))
            /\ (fa = None /\ fe # None) => out = Num(RMul(call.args.ere, fe))

(***************************************************************************)
(* C8 as claimed.  For positive weights calcular_peso_ajustado is a pure   *)
(* two-way selection and has no other outcome: no third branch, no absent  *)
(* result.  The code violates it: a condition that is neither member       *)
(* reaches the third branch, return None.                                  *)
(***************************************************************************)
C8_NoThirdOutcome ==
    (/\ Returned("calcular_peso_ajustado")
     /\ Positive(call.args.peso_atual)
     /\ Positive(call.args.peso_ideal))
        => IsNum(out)

(***************************************************************************)
(* C8 amended.  For positive actual and ideal weights the result is        *)
(* (actual - ideal)*0.25 + ideal when the condition is OBESIDADE,          *)
(* (actual - ideal)*0.25 + actual when it is DESNUTRICAO, and the          *)
(* no-result outcome (None) for any other condition value; these are the   *)
(* only outcomes for valid weights.                                        *)
(***************************************************************************)
C8_ThreeWaySelection ==
    (/\ Returned("calcular_peso_ajustado")
     /\ Positive(call.args.peso_atual)
     /\ Positive(call.args.peso_ideal))
        => LET a == call.args.peso_atual
               i == call.args.peso_ideal
               quarto == RMul(RSub(a, i), Rat(25, 100))
           IN  /\ call.args.condicao = "OBESIDADE" => out = Num(RAdd(quarto, i))
               /\ call.args.condicao = "DESNUTRICAO" => out = Num(RAdd(quarto, a))
               /\ call.args.condicao \notin Condicao => out = NoResult

\* malnutrition with different weights: (10 - 20)*0.25 + 10 = 7.5
C8_Witness ==
    /\ Returned("calcular_peso_ajustado")
    /\ call.args.peso_atual = IntLit(10)
    /\ call.args.peso_ideal = IntLit(20)
    /\ call.args.condicao = "DESNUTRICAO"
    /\ out = Num(Rat(75, 10))

(***************************************************************************)
(* C9.  For each condition in {OBESIDADE, DESNUTRICAO} and every positive  *)
(* weight w, calcular_peso_ajustado(w, w, condition) returns w.            *)
(***************************************************************************)
C9_EqualWeightsGiveIdeal ==
    (/\ Returned("calcular_peso_ajustado")
     /\ Positive(call.args.peso_atual)
     /\ call.args.peso_atual = call.args.peso_ideal
     /\ call.args.condicao \in Condicao)
        => out = Num(call.args.peso_ideal)

C9_Witness ==
    /\ Returned("calcular_peso_ajustado")
    /\ call.args.peso_atual = IntLit(20)
    /\ call.args.peso_ideal = IntLit(20)
    /\ call.args.condicao = "DESNUTRICAO"
    /\ out = Num(IntLit(20))

(***************************************************************************)
(* C10.  calcular_perda_peso(usual, current) returns                       *)
(* (usual - current)/usual * 100 for every positive usual weight: 5 for    *)
(* (100, 95) and 0 whenever current = usual; the outcome is the bare       *)
(* number, with no severity class attached.                                *)
(***************************************************************************)
C10_WeightLossPercent ==
    (Returned("calcular_perda_peso") /\ Positive(call.args.peso_usual)) =>
        LET u == call.args.peso_usual
            a == call.args.peso_atual
        IN  /\ out = Num(RMul(RDiv(RSub(u, a), u), IntLit(100)))
            /\ DOMAIN out = {"kind", "val"}
            /\ (u = IntLit(100) /\ a = IntLit(95)) => out.val = IntLit(5)
            /\ a = u => out.val = Zero

C10_Witness ==
    /\ Returned("calcular_perda_peso")
    /\ call.args.peso_usual = IntLit(100)
    /\ call.args.peso_atual = IntLit(95)
    /\ out = Num(IntLit(5))

(***************************************************************************)
(* C11.  For positive measurements estimar_peso_crianca selects one of     *)
(* exactly four coefficient sets by (sex, ethnicity):                      *)
(*   (MASCULINO, BRANCA) 0.68*knee + 2.64*arm - 50.08                      *)
(*   (MASCULINO, NEGRA)  0.59*knee + 2.73*arm - 48.32                      *)
(*   (FEMININO, BRANCA)  0.77*knee + 2.47*arm - 50.16                      *)
(*   (FEMININO, NEGRA)   0.71*knee + 2.59*arm - 50.43                      *)
(* and for any other pair returns None: no error, no number.               *)
(***************************************************************************)
\* kc*knee + ac*arm - k with the coefficients in hundredths
PesoCrianca(knee, arm, kc, ac, k) ==
    RSub(RAdd(RMul(Rat(kc, 100), knee), RMul(Rat(ac, 100), arm)), Rat(k, 100))

C11_ChildWeightTable ==
    (/\ Returned("estimar_peso_crianca")
     /\ Positive(call.args.altura_joelho)
     /\ Positive(call.args.perimetro_braco))
        => LET j == call.args.altura_joelho
               b == call.args.perimetro_braco
               s == call.args.sexo
               r == call.args.raca
           IN  /\ (s = "MASCULINO" /\ r = "BRANCA") =>
                      out = Num(PesoCrianca(j, b, 68, 264, 5008))
               /\ (s = "MASCULINO" /\ r = "NEGRA") =>
                      out = Num(PesoCrianca(j, b, 59, 273, 4832))
               /\ (s = "FEMININO" /\ r = "BRANCA") =>
                      out = Num(PesoCrianca(j, b, 77, 247, 5016))
               /\ (s = "FEMININO" /\ r = "NEGRA") =>
                      out = Num(PesoCrianca(j, b, 71, 259, 5043))
               /\ (s \notin Sexo \/ r \notin Raca) => out = NoResult

\* a recognised sex with an unrecognised ethnicity gives None
C11_Witness ==
    /\ Returned("estimar_peso_crianca")
    /\ call.args.altura_joelho = IntLit(30)
    /\ call.args.perimetro_braco = IntLit(20)
    /\ call.args.sexo = "MASCULINO"
    /\ call.args.raca \notin Raca
    /\ out = NoResult

(***************************************************************************)
(* C12.  calcular_percentual_gordura uses the simplified tier exactly when *)
(* the skinfold sum exceeds 35: for a sum > 35 and a valid Tanner stage    *)
(* the result is 0.783*s + 1.6 for males and 0.546*s + 9.7 for females,    *)
(* whatever the Tanner stage and the ethnicity; a sum of exactly 35 does   *)
(* not give the simplified value.                                          *)
(***************************************************************************)
GorduraSimplificada(s, sexo) ==
    IF sexo = "MASCULINO"
    THEN RAdd(RMul(Rat(783, 1000), s), Rat(16, 10))
    ELSE RAdd(RMul(Rat(546, 1000), s), Rat(97, 10))

C12_SimplifiedTierAbove35 ==
    (/\ Returned("calcular_percentual_gordura")
     /\ call.args.estagio_tanner \in 1..5)
        => LET s == call.args.soma_dobras
           IN  /\ RGt(s, IntLit(35)) =>
                      out = Num(GorduraSimplificada(s, call.args.sexo))
               /\ s = IntLit(35) =>
                      out # Num(GorduraSimplificada(s, call.args.sexo))

\* 35.1 mm, male, stage 3, black: 0.783*35.1 + 1.6 = 29.0833
C12_Witness ==
    /\ Returned("calcular_percentual_gordura")
    /\ call.args.soma_dobras = Rat(351, 10)
    /\ call.args.sexo = "MASCULINO"
    /\ call.args.estagio_tanner = 3
    /\ call.args.raca = "NEGRA"
    /\ out = Num(Rat(290833, 10000))

(***************************************************************************)
(* C13.  For 0 < sum <= 35 and a valid Tanner stage, the male result is    *)
(* 1.21*s - 0.008*s^2 minus a constant chosen by ethnicity and Tanner      *)
(* group {1,2}, {3}, {4,5} (white 1.7, 3.4, 5.5; black 3.2, 5.2, 6.8);     *)
(* the female result is 1.33*s - 0.013*s^2 - 2.5 whatever the ethnicity    *)
(* and stage; every such call returns a number.  Stated as claimed; the    *)
(* code violates the last part.                                            *)
(***************************************************************************)
\* the constant in tenths
ConstanteMasculina(raca, tanner) ==
    IF raca = "BRANCA"
    THEN (IF tanner \in {1, 2} THEN 17 ELSE IF tanner = 3 THEN 34 ELSE 55)
    ELSE (IF tanner \in {1, 2} THEN 32 ELSE IF tanner = 3 THEN 52 ELSE 68)

C13_QuadraticTier ==
    (/\ Returned("calcular_percentual_gordura")
     /\ call.args.estagio_tanner \in 1..5
     /\ Positive(call.args.soma_dobras)
     /\ RLe(call.args.soma_dobras, IntLit(35)))
        => LET s == call.args.soma_dobras
               s2 == RMul(s, s)
           IN  /\ IsNum(out)
               /\ (call.args.sexo = "MASCULINO" /\ call.args.raca \in Raca) =>
                      out.val = RSub(RSub(RMul(Rat(121, 100), s),
                                          RMul(Rat(8, 1000), s2)),
                                     Rat(ConstanteMasculina(call.args.raca,
                                                            call.args.estagio_tanner),
                                         10))
               /\ call.args.sexo = "FEMININO" =>
                      out.val = RSub(RSub(RMul(Rat(133, 100), s),
                                          RMul(Rat(13, 1000), s2)),
                                     Rat(25, 10))

(***************************************************************************)
(* C14.  For a positive weight and a non-negative age calcular_tmb uses    *)
(* three upper-inclusive age bands (age <= 3; 3 < age <= 10;               *)
(* 10 < age <= 18) with the sex-specific formulas                          *)
(*   male   60.9w - 54, 22.7w + 495, 17.5w + 651                           *)
(*   female 61w - 51,   22.5w + 499, 12.2w + 746                           *)
(* so ages 3, 10 and 18 fall in the lower of the adjacent bands; for       *)
(* age > 18 it returns None, not an error.  Weight 20, age 5, male gives   *)
(* 949.                                                                    *)
(***************************************************************************)
\* index of the band of an age >= 0: 1, 2, 3, or 0 above 18
Faixa(idade) ==
    IF RLe(idade, IntLit(3)) THEN 1
    ELSE IF RLe(idade, IntLit(10)) THEN 2
    ELSE IF RLe(idade, IntLit(18)) THEN 3
    ELSE 0

\* slope (tenths) and intercept of calcular_tmb by sex and band
TabelaTMB ==
    [MASCULINO |-> <<<<609, -54>>, <<227, 495>>, <<175, 651>>>>,
     FEMININO |-> <<<<610, -51>>, <<225, 499>>, <<122, 746>>>>]

C14_BasalMetabolicRateBands ==
    (/\ Returned("calcular_tmb")
     /\ Positive(call.args.peso)
     /\ RGe(call.args.idade, Zero))
        => LET w == call.args.peso
               f == Faixa(call.args.idade)
               t == TabelaTMB[call.args.sexo]
           IN  /\ f = 0 => out = NoResult
               /\ f # 0 => out = Num(RAdd(RMul(Rat(t[f][1], 10), w), IntLit(t[f][2])))
               /\ (w = IntLit(20) /\ call.args.idade = IntLit(5)
                   /\ call.args.sexo = "MASCULINO") => out = Num(IntLit(949))

\* age exactly 10 is still in the middle band: 22.5*20 + 499 = 949
C14_Witness ==
    /\ Returned("calcular_tmb")
    /\ call.args.peso = IntLit(20)
    /\ call.args.idade = IntLit(10)
    /\ call.args.sexo = "FEMININO"
    /\ out = Num(IntLit(949))

(***************************************************************************)
(* C15.  tmb_schofield has the band structure of calcular_tmb: for every   *)
(* weight, age and sex the two select the band with the same index or      *)
(* give the same kind of non-numeric outcome; tmb_schofield uses its own   *)
(* table (male 54.48w - 30.33, 22.7w + 505, 13.4w + 693; female            *)
(* 58.29w - 31.05, 20.3w + 486, 17.7w + 659) whatever the height.  Stated  *)
(* as claimed; the code violates it.                                       *)
(***************************************************************************)
\* slope and intercept (hundredths) of tmb_schofield by sex and band
TabelaSchofield ==
    [MASCULINO |-> <<<<5448, -3033>>, <<2270, 50500>>, <<1340, 69300>>>>,
     FEMININO |-> <<<<5829, -3105>>, <<2030, 48600>>, <<1770, 65900>>>>]

C15_SchofieldParallelsTMB ==
    Returned("tmb_schofield") =>
        LET w == call.args.peso
            tmb == calcular_tmb(w, call.args.idade, call.args.sexo)
            f == Faixa(call.args.idade)
            t == TabelaSchofield[call.args.sexo]
        IN  /\ out.kind = tmb.kind
            /\ IsNum(out) =>
                 /\ f # 0
                 /\ out.val = RAdd(RMul(Rat(t[f][1], 100), w), Rat(t[f][2], 100))
                 /\ tmb.val = RAdd(RMul(Rat(TabelaTMB[call.args.sexo][f][1], 10), w),
                                   IntLit(TabelaTMB[call.args.sexo][f][2]))

\* a calcular_requerimento_energetico call whose weight, height and activity
\* factor are all positive
RequerimentoValido ==
    /\ Returned("calcular_requerimento_energetico")
    /\ Positive(call.args.peso)
    /\ Positive(call.args.estatura)
    /\ Positive(call.args.fator_atividade)

(***************************************************************************)
(* C16, as claimed.  calcular_requerimento_energetico with an age above 18 *)
(* or a negative age, the other inputs valid, returns None.  The code      *)
(* violates the negative half.                                             *)
(***************************************************************************)
C16_NoResultOutsideBands ==
    (/\ RequerimentoValido
     /\ RGt(call.args.idade, IntLit(18)) \/ RLt(call.args.idade, Zero))
        => out = NoResult

(***************************************************************************)
(* C16, as the code has it.  With the other inputs valid, an age above 18  *)
(* returns None and a negative age raises the validation ValueError.       *)
(***************************************************************************)
C16_NoResultAboveBandsOnly ==
    RequerimentoValido =>
        /\ RGt(call.args.idade, IntLit(18)) => out = NoResult
        /\ RLt(call.args.idade, Zero)
             => out = Raise("ValueError", "Valores devem ser positivos")

\* a negative age with everything else valid is refused
C16_Witness ==
    /\ RequerimentoValido
    /\ call.args.idade = IntLit(-1)
    /\ IsValueError(out)

(***************************************************************************)
(* C17.  The bands of calcular_requerimento_energetico cover [0, 18]: for  *)
(* every age in it, ages strictly between 2.92 and 3 included, and valid   *)
(* weight, height, sex and activity factor a number is returned.  Stated   *)
(* as claimed; the code violates it.                                       *)
(***************************************************************************)
C17_BandsCoverSupportedAges ==
    (/\ RequerimentoValido
     /\ RGe(call.args.idade, Zero)
     /\ RLe(call.args.idade, IntLit(18)))
        => IsNum(out)

(***************************************************************************)
(* C18.  In calcular_requerimento_energetico the bands [3, 9) and [9, 18]  *)
(* use one sex-specific linear combination                                 *)
(*   male   88.5 - 61.9 age + factor (26.7 w + 903 h)                      *)
(*   female 135.3 - 30.8 age + factor (10 w + 934 h)                       *)
(* plus 20 in [3, 9) and 25 in [9, 18]; age 3 takes 20 and age 9 takes 25, *)
(* so the upper band's formula is the lower band's plus exactly 5.         *)
(***************************************************************************)
\* the combination the two bands share, written out from lines 185-192
CombinacaoEER ==
    LET i == call.args.idade
        w == call.args.peso
        h == call.args.estatura
        f == call.args.fator_atividade
    IN  IF call.args.sexo = "MASCULINO"
        THEN RAdd(RSub(Rat(885, 10), RMul(Rat(619, 10), i)),
                  RMul(f, RAdd(RMul(Rat(267, 10), w), RMul(IntLit(903), h))))
        ELSE RAdd(RSub(Rat(1353, 10), RMul(Rat(308, 10), i)),
                  RMul(f, RAdd(RMul(IntLit(10), w), RMul(IntLit(934), h))))

C18_UpperBandAddsFive ==
    (/\ RequerimentoValido
     /\ RGe(call.args.idade, IntLit(3))
     /\ RLe(call.args.idade, IntLit(18)))
        => /\ IsNum(out)
           /\ RLt(call.args.idade, IntLit(9))
                => /\ RSub(out.val, CombinacaoEER) = IntLit(20)
                   /\ RSub(RAdd(CombinacaoEER, IntLit(25)), out.val) = IntLit(5)
           /\ RGe(call.args.idade, IntLit(9))
                => /\ RSub(out.val, CombinacaoEER) = IntLit(25)
                   /\ RSub(out.val, RAdd(CombinacaoEER, IntLit(20))) = IntLit(5)

\* age exactly 9 takes the upper band's constant
C18_Witness ==
    /\ RequerimentoValido
    /\ call.args.idade = IntLit(9)
    /\ IsNum(out)
    /\ RSub(out.val, CombinacaoEER) = IntLit(25)

(***************************************************************************)
(* C19.  calcular_necessidade_pc is linear in fator_estresse: whenever it  *)
(* returns a number for stress factor x, that number is x times the value  *)
(* for stress factor 1, and the value for stress factor 2x is twice it.    *)
(***************************************************************************)
C19_StressFactorLinear ==
    (Returned("calcular_necessidade_pc") /\ IsNum(out)) =>
        LET a == call.args
            um == calcular_necessidade_pc(a.peso, a.altura, a.sexo, a.idade, IntLit(1))
            dobro == calcular_necessidade_pc(a.peso, a.altura, a.sexo, a.idade,
                                             RMul(IntLit(2), a.fator_estresse))
        IN  /\ IsNum(um)
            /\ out.val = RMul(um.val, a.fator_estresse)
            /\ dobro = Num(RMul(IntLit(2), out.val))

\* 16.25*20 + 137.2*1.1 + 515.5 = 991.42 at stress 1.2 gives 1189.704
C19_Witness ==
    /\ Returned("calcular_necessidade_pc")
    /\ call.args = [peso |-> IntLit(20), altura |-> Rat(11, 10), sexo |-> "MASCULINO",
                    idade |-> IntLit(18), fator_estresse |-> Rat(12, 10)]
    /\ out = Num(Rat(1189704, 1000))

(***************************************************************************)
(* C20.  calcular_necessidade_pc with valid weight, height and stress      *)
(* factor and an age above 18 returns None, neither raising nor failing    *)
(* validation.  Stated as claimed; the code violates it.                   *)
(***************************************************************************)
C20_AdultAgeGivesNoResult ==
    (/\ Returned("calcular_necessidade_pc")
     /\ Positive(call.args.peso)
     /\ Positive(call.args.altura)
     /\ Positive(call.args.fator_estresse)
     /\ RGt(call.args.idade, IntLit(18)))
        => out = NoResult

\* the spec's MotorCondition values as the strings the code compares with
NoDysfunction == "sem disfuncao motora"
Ambulatory == "nao apresentar disfuncao mas deambular"
NonAmbulatory == "nao deambular (caminhar)"

\* per-cm coefficient (tenths) of necessidade_energetica_pc_5_11 by level
Tabela5a11 ==
    [n \in NivelAtividade |->
        IF n = "leve a moderada" THEN 139
        ELSE IF n = "restrita intensa" THEN 100 ELSE 111]

\* the 5-11 half of C21: 13.9, 10.0, 11.1 times the height
Claim5a11 ==
    (Returned("necessidade_energetica_pc_5_11")
     /\ call.args.nivel_atividade \in NivelAtividade)
        => out = Num(RMul(Rat(Tabela5a11[call.args.nivel_atividade], 10),
                          call.args.altura))

(***************************************************************************)
(* C21, as claimed.  necessidade_energetica_pc_estaveis multiplies the     *)
(* height by 15 for NoDysfunction, 11 for Ambulatory and 14 for            *)
(* NonAmbulatory, and necessidade_energetica_pc_5_11 by 13.9, 10.0, 11.1   *)
(* for the three activity levels in declared order.  The code has 11 and   *)
(* 14 the other way round.                                                 *)
(***************************************************************************)
C21_CoefficientsInDeclaredOrder ==
    /\ Claim5a11
    /\ (Returned("necessidade_energetica_pc_estaveis")
        /\ call.args.condicao_motora \in CondicaoMotora)
           => LET c == call.args.condicao_motora
                  k == IF c = NoDysfunction THEN 15
                       ELSE IF c = Ambulatory THEN 11 ELSE 14
              IN  out = Num(RMul(IntLit(k), call.args.altura))

(***************************************************************************)
(* C21, as the code has it.  necessidade_energetica_pc_estaveis            *)
(* multiplies the height by 15 for NoDysfunction, 14 for Ambulatory and    *)
(* 11 for NonAmbulatory; necessidade_energetica_pc_5_11 by 13.9, 10.0,     *)
(* 11.1 for leve a moderada, restrita intensa, restricao fisica grave.     *)
(***************************************************************************)
C21_CoefficientsByCondition ==
    /\ Claim5a11
    /\ (Returned("necessidade_energetica_pc_estaveis")
        /\ call.args.condicao_motora \in CondicaoMotora)
           => LET c == call.args.condicao_motora
                  k == IF c = NoDysfunction THEN 15
                       ELSE IF c = Ambulatory THEN 14 ELSE 11
              IN  out = Num(RMul(IntLit(k), call.args.altura))

\* a child who cannot walk, 120 cm: 11 * 120 = 1320
C21_Witness ==
    /\ Returned("necessidade_energetica_pc_estaveis")
    /\ call.args.condicao_motora = NonAmbulatory
    /\ call.args.altura = IntLit(120)
    /\ out = Num(IntLit(1320))

\* a factor that is neither None nor 0
NaoNulo(f) == f # None /\ f # Zero

(***************************************************************************)
(* C26.  calcular_gasto_energetico_total with a positive ere decides       *)
(* "supplied" by truth value: it raises the combination ValueError         *)
(* whenever both factors are non-zero numbers (both 1.0 included), and a   *)
(* factor 0 counts as absent: the result is ere, or ere times the other    *)
(* factor, never ere * 0.                                                  *)
(***************************************************************************)
C26_SuppliedMeansTruthy ==
    (Returned("calcular_gasto_energetico_total") /\ Positive(call.args.ere)) =>
        LET ere == call.args.ere
            fa == call.args.fator_atividade
            fe == call.args.fator_estresse
        IN  /\ (NaoNulo(fa) /\ NaoNulo(fe))
                 => out = Raise("ValueError",
                                "Use apenas fator de atividade OU fator de estresse")
            /\ (NaoNulo(fa) /\ ~NaoNulo(fe)) => out = Num(RMul(ere, fa))
            /\ (~NaoNulo(fa) /\ NaoNulo(fe)) => out = Num(RMul(ere, fe))
            /\ (~NaoNulo(fa) /\ ~NaoNulo(fe)) => out = Num(ere)
            /\ (fa = Zero \/ fe = Zero) => out # Num(Zero)

\* both factors at the neutral 1.0 are refused
C26_Witness ==
    /\ Returned("calcular_gasto_energetico_total")
    /\ call.args.ere = IntLit(1500)
    /\ call.args.fator_atividade = IntLit(1)
    /\ call.args.fator_estresse = IntLit(1)
    /\ IsValueError(out)

(***************************************************************************)
(* C27.  necessidade_energetica_pc_5_11 with a level, and                  *)
(* necessidade_energetica_pc_estaveis with a motor condition, that is not  *)
(* one of the three recognized strings return the number 0, not None and   *)
(* not an error; with a recognized string and a positive height the result *)
(* is a number above 0.                                                    *)
(***************************************************************************)
C27_ZeroSentinel ==
    /\ Returned("necessidade_energetica_pc_5_11") =>
         /\ call.args.nivel_atividade \notin NivelAtividade => out = Num(Zero)
         /\ (call.args.nivel_atividade \in NivelAtividade /\ Positive(call.args.altura))
              => (IsNum(out) /\ Positive(out.val))
    /\ Returned("necessidade_energetica_pc_estaveis") =>
         /\ call.args.condicao_motora \notin CondicaoMotora => out = Num(Zero)
         /\ (call.args.condicao_motora \in CondicaoMotora /\ Positive(call.args.altura))
              => (IsNum(out) /\ Positive(out.val))

\* the enum member's name instead of its value: the result is 0
C27_Witness ==
    /\ Returned("necessidade_energetica_pc_5_11")
    /\ call.args.nivel_atividade = "LEVE_MODERADA"
    /\ call.args.altura = IntLit(120)
    /\ out = Num(Zero)

(***************************************************************************)
(* Properties of the Streamlit session (SpecSessao)                        *)
(***************************************************************************)
\* a run in which a button handler has just finished
Calculou == pc = "returned"

\* the three sub-estimates, written out from lines 134-136
EstimativaCT == RAdd(RMul(Rat(326, 100), call.args.comprimento_tibial), Rat(322, 10))
EstimativaCS == RAdd(RMul(Rat(435, 100), call.args.comprimento_superior), Rat(235, 10))
EstimativaCJ == RAdd(RMul(Rat(269, 100), call.args.comprimento_joelho), Rat(253, 10))
MediaDasTres == RDiv(RAdd(RAdd(EstimativaCT, EstimativaCS), EstimativaCJ), IntLit(3))

(***************************************************************************)
(* C22, as claimed.  The mapping returned by                               *)
(* estimar_estatura_paralisia_cerebral contains the three sub-estimates    *)
(* and also their arithmetic mean.  The code's mapping has no entry for    *)
(* the mean.                                                               *)
(***************************************************************************)
C22_MappingHoldsMean ==
    Returned("estimar_estatura_paralisia_cerebral") =>
        /\ out.Estimada_CT = EstimativaCT
        /\ out.Estimada_CS = EstimativaCS
        /\ out.Estimada_CJ = EstimativaCJ
        /\ \E k \in DOMAIN out \ {"kind", "Estimada_CT", "Estimada_CS", "Estimada_CJ"} :
               out[k] = MediaDasTres

(***************************************************************************)
(* C22, as the code has it.  estimar_estatura_paralisia_cerebral returns a *)
(* mapping of exactly three keys: by tibial length 3.26 CT + 30.8 + 1.4,   *)
(* by upper-arm length 4.35 CS + 21.8 + 1.7, by knee length                *)
(* 2.69 CJ + 24.2 + 1.1.  The mean is computed by the page from the        *)
(* returned mapping: what it shows and logs is the sum of exactly these    *)
(* three divided by 3.                                                     *)
(***************************************************************************)
C22_MeanComputedByCaller ==
    Returned("estimar_estatura_paralisia_cerebral") =>
        /\ DOMAIN out = {"kind", "Estimada_CT", "Estimada_CS", "Estimada_CJ"}
        /\ out.Estimada_CT = EstimativaCT
        /\ out.Estimada_CS = EstimativaCS
        /\ out.Estimada_CJ = EstimativaCJ
        /\ tela.tipo = "sucesso"
        /\ tela.valor = MediaDasTres
        /\ historico # <<>>
        /\ historico[Len(historico)].resultado = MediaDasTres

\* the widget defaults 20, 20, 15: (97.4 + 110.5 + 65.65) / 3 = 91.18333...
C22_Witness ==
    /\ Returned("estimar_estatura_paralisia_cerebral")
    /\ call.args.comprimento_superior = IntLit(20)
    /\ call.args.comprimento_tibial = IntLit(20)
    /\ call.args.comprimento_joelho = IntLit(15)
    /\ tela.valor = Rat(27355, 300)

Recalculo ==
    LET a == call.args
    IN  CASE call.fn = "calcular_perda_peso"
               -> calcular_perda_peso(a.peso_usual, a.peso_atual)
          [] call.fn = "estimar_estatura_paralisia_cerebral"
               -> estimar_estatura_paralisia_cerebral(a.comprimento_superior,
                                                      a.comprimento_tibial,
                                                      a.comprimento_joelho)
          [] call.fn = "calcular_gasto_energetico_total"
               -> calcular_gasto_energetico_total(a.ere, a.fator_atividade,
                                                  a.fator_estresse)
          [] call.fn = "calcular_requerimento_energetico"
               -> calcular_requerimento_energetico(a.idade, a.peso, a.estatura,
                                                   a.sexo, a.fator_atividade)

\* a step that changes the log either empties it or is a button handler
\* appending the one entry it shows
MudancaDoHistorico ==
    historico' # historico =>
        \/ historico' = <<>>
        \/ /\ pc = "idle" /\ pc' = "returned"
           /\ tela'.tipo = "sucesso"
           /\ historico' = Append(historico, historico'[Len(historico')])
           /\ historico'[Len(historico')].resultado = tela'.valor

C25_SeverityClasses ==
    (Returned("calcular_perda_peso") /\ IsNum(out)) =>
        LET p == out.val
            bruto == RDiv(RMul(RSub(call.args.peso_usual, call.args.peso_atual),
                               IntLit(100)),
                          call.args.peso_usual)
        IN  /\ p = bruto
            /\ tela.tipo = "sucesso"
            /\ tela.valor = bruto
            /\ historico[Len(historico)].resultado = bruto
            /\ tela.classificacao = "Perda insignificante" <=> RLt(p, IntLit(5))
            /\ tela.classificacao = "Perda moderada"
                 <=> (RGe(p, IntLit(5)) /\ RLt(p, IntLit(10)))
            /\ tela.classificacao = "Perda grave" <=> RGe(p, IntLit(10))

\* from 100 kg to 95 kg: exactly 5 per cent is moderate
C25_Witness ==
    /\ Returned("calcular_perda_peso")
    /\ out = Num(IntLit(5))
    /\ tela.classificacao = "Perda moderada"

\* a button handler's run and the log: a numeric result appends one entry
\* at the end, anything else leaves the log as it was
PassoDeCalculo ==
    (pc = "idle" /\ pc' = "returned") =>
        IF tela'.tipo = "sucesso"
        THEN /\ Len(historico') = Len(historico) + 1
             /\ SubSeq(historico', 1, Len(historico)) = historico
             /\ historico'[Len(historico')].resultado = tela'.valor
        ELSE historico' = historico

\* entries leave the log only by the clearing, which empties it
SoLimparRemove ==
    (\E i \in 1..Len(historico) : i > Len(historico') \/ historico'[i] # historico[i])
        => historico' = <<>>

\* what the sidebar shows is the last five entries of the log, newest first
BarraAtual == barra = Mostrar(historico)

(***************************************************************************)
(* C28.  The history is a chronological log over any sequence of UI        *)
(* actions: a calculation with a numeric result appends exactly one entry  *)
(* at the end and leaves the earlier ones as they were; a calculation that *)
(* fails, yields None or is refused leaves the log unchanged; only the     *)
(* clearing removes entries and it empties the log; the sidebar shows at   *)
(* most the 5 most recent entries, newest first.  Stated as claimed; the   *)
(* code violates the part about the sidebar.                               *)
(***************************************************************************)
C28_ChronologicalLog ==
    /\ [][PassoDeCalculo /\ SoLimparRemove]_vars
    /\ [](Len(barra) <= UltimasEntradas /\ BarraAtual)

====
